---- MODULE Spec2Model ----
(***************************************************************************)
(* A model of sjtu::map (src/map/map.hpp): a red-black tree with parent    *)
(* links hanging from a sentinel header node.  The heap is modelled        *)
(* explicitly: every RBTNode is a cell with left/right/parent/color and    *)
(* its pair<const Key, T>, and every routine of the class is an operator   *)
(* that maps a heap to the heap it leaves behind.                          *)
(***************************************************************************)
EXTENDS Integers, FiniteSets, Sequences, TLC

\* Keys a single container is driven with.
MaxKey == 6
\* Keys used when two containers are driven together.
MaxPairKey == 2
\* Mapped values are 0..MaxVal; 0 is T().
MaxVal == 1
\* Keys a linked_hashmap is driven with.
MaxLinkedKey == 4
\* Keys a single container is driven with when values are stored through
\* references.
MaxStoreKey == 3
\* Keys a single container is driven with when only insert and erase are
\* called; at most 2 * MaxKey, the size of the pool.
MaxDeepKey == 8

Null == 0
DefaultVal == 0
RED == "RED"
BLACK == "BLACK"

Keys == 1..MaxKey
DeepKeys == 1..MaxDeepKey
PairKeys == 1..MaxPairKey
Maps == {1, 2}

\* Addresses.  Node identity carries no meaning beyond equality, so the pool
\* is laid out by key: the node made for key k gets the lowest free address of
\* {k, k + MaxKey}.  Two containers can hold the same key at once, and an
\* address that was released is handed out again by the next allocation for
\* that key.
Pool == 1..(2 * MaxKey)
Sent(m) == 2 * MaxKey + m
Node == Pool \cup {Sent(m) : m \in Maps}

\* heap, len: the objects.  last: the call made last, and the way it went.
\* comparator: the Compare the containers were instantiated with.
\* lhm: the sjtu::linked_hashmap objects and their nodes.  inserted: for each
\* of them, the keys it holds in the order of their last successful insertion
\* (a history of the calls, not a field of the program).
\* undefined: a call with undefined behaviour was made.  derived: both
\* containers exist and one was built from the other, by copy construction
\* or by assignment.
VARIABLES heap, len, last, undefined, derived, comparator, lhm, inserted

vars == <<heap, len, last, undefined, derived, comparator, lhm, inserted>>

----------------------------------------------------------------------------
\* RBTNode

\* A cell that holds no object: what RBTNode() leaves, with data == nullptr.
BlankCell(h, n) ==
  [h EXCEPT !.left[n] = Null, !.right[n] = Null, !.parent[n] = Null,
            !.color[n] = RED, !.key[n] = 0, !.val[n] = DefaultVal]

\* new RBTNode with a default-constructed mapped value in place of x's
NewNodeDefaultValue(h, n, k, v, p, c) ==
  [h EXCEPT !.left[n] = Null, !.right[n] = Null, !.parent[n] = p,
            !.color[n] = c, !.key[n] = k, !.val[n] = DefaultVal,
            !.live = @ \cup {n}]

\* new RBTNode(x, _parent, nullptr, nullptr, _color) at address n
NewNode(h, n, k, v, p, c) ==
  [h EXCEPT !.left[n] = Null, !.right[n] = Null, !.parent[n] = p,
            !.color[n] = c, !.key[n] = k, !.val[n] = v,
            !.live = @ \cup {n}]

\* The address operator new returns for a node holding key k.
Alloc(h, k) == IF k \notin h.live THEN k ELSE k + MaxKey

\* delete node: the cell is released; what it held is gone.
DeleteNode(h, n) == [BlankCell(h, n) EXCEPT !.live = @ \ {n}]

\* An assertion of the source that fails aborts the program.
Abort(h) == [h EXCEPT !.aborted = TRUE]

isLeaf(h, n) == h.left[n] = Null /\ h.right[n] = Null

isRoot(h, n) == h.parent[n] # Null /\ h.parent[h.parent[n]] = Null

isRed(h, n) == h.color[n] = RED

isBlack(h, n) == h.color[n] = BLACK

direction(h, n) ==
  IF ~isRoot(h, n)
    THEN IF n = h.left[h.parent[n]] THEN "LEFT" ELSE "RIGHT"
    ELSE "ROOT"

sibling(h, n) ==
  IF direction(h, n) = "LEFT" THEN h.right[h.parent[n]] ELSE h.left[h.parent[n]]

hasSibling(h, n) == ~isRoot(h, n) /\ sibling(h, n) # Null

uncle(h, n) == sibling(h, h.parent[n])

hasUncle(h, n) == ~isRoot(h, n) /\ hasSibling(h, h.parent[n])

\* grandParent() returning the parent
grandParentNear(h, n) == h.parent[n]

grandParent(h, n) == h.parent[h.parent[n]]

\* Compare()(x, y).  Compare is the class's third template argument:
\* std::less<Key> by default, or a functor of the caller's; the one used here
\* orders keys by (key + 1) / 2, so that 1 and 2, 3 and 4, ... are equivalent.
Compare(x, y) ==
  IF comparator = "less" THEN x < y ELSE (x + 1) \div 2 < (y + 1) \div 2

\* key equality taken from the key values instead of the comparator
equal_keyByValue(x, y) == x = y

\* bool equal_key(Key x, Key y)
equal_key(x, y) == ~(Compare(x, y) \/ Compare(y, x))

paint(h, n, c) == [h EXCEPT !.color[n] = c]

setLeft(h, n, x) == [h EXCEPT !.left[n] = x]

setRight(h, n, x) == [h EXCEPT !.right[n] = x]

setParent(h, n, x) == [h EXCEPT !.parent[n] = x]

\* a store through a RBTNode*& that names the slot `side` of p
setChild(h, p, side, x) == IF side = "left" THEN setLeft(h, p, x) ELSE setRight(h, p, x)

----------------------------------------------------------------------------
\* Rotations

\* if (node->left != nullptr) node->left->parent = node
adoptLeft(h, n) == IF h.left[n] # Null THEN setParent(h, h.left[n], n) ELSE h

\* if (node->right != nullptr) node->right->parent = node
adoptRight(h, n) == IF h.right[n] # Null THEN setParent(h, h.right[n], n) ELSE h

maintainRelationship(h, n) == adoptRight(adoptLeft(h, n), n)

\* switch (direction): the slot that held a node with that direction under
\* parent (the sentinel s for ROOT) is made to hold x
setSlot(h, s, parent, dir, x) ==
  CASE dir = "ROOT" -> setLeft(h, s, x)
    [] dir = "LEFT" -> setLeft(h, parent, x)
    [] dir = "RIGHT" -> setRight(h, parent, x)

\* rotateLeft exchanging the colours of the node and its successor as well
rotateLeftLinksRecolouring(h, s, n, parent, dir, successor) ==
  [setParent(
     setSlot(
       maintainRelationship(
         maintainRelationship(
           setLeft(setRight(h, n, h.left[successor]), successor, n), n),
         successor),
       s, parent, dir, successor),
     successor, parent)
   EXCEPT !.color[n] = h.color[successor], !.color[successor] = h.color[n]]

rotateLeftLinks(h, s, n, parent, dir, successor) ==
  setParent(
    setSlot(
      maintainRelationship(
        maintainRelationship(
          setLeft(setRight(h, n, h.left[successor]), successor, n), n),
        successor),
      s, parent, dir, successor),
    successor, parent)

\* s is this->sentinel
rotateLeft(h, s, n) ==
  IF n = Null \/ h.right[n] = Null THEN Abort(h)
  ELSE rotateLeftLinks(h, s, n, h.parent[n], direction(h, n), h.right[n])

\* rotateRight storing the successor in the sentinel's right slot as well
rotateRightLinksSentinelRight(h, s, n, parent, dir, successor) ==
  setRight(
    setParent(
      setSlot(
        maintainRelationship(
          maintainRelationship(
            setRight(setLeft(h, n, h.right[successor]), successor, n), n),
          successor),
        s, parent, dir, successor),
      successor, parent),
    s, successor)

rotateRightLinks(h, s, n, parent, dir, successor) ==
  setParent(
    setSlot(
      maintainRelationship(
        maintainRelationship(
          setRight(setLeft(h, n, h.right[successor]), successor, n), n),
        successor),
      s, parent, dir, successor),
    successor, parent)

rotateRight(h, s, n) ==
  IF n = Null \/ h.left[n] = Null THEN Abort(h)
  ELSE rotateRightLinks(h, s, n, h.parent[n], direction(h, n), h.left[n])

rotateSameDirection(h, s, n, dir) ==
  IF dir = "LEFT" THEN rotateLeft(h, s, n) ELSE rotateRight(h, s, n)

rotateOppositeDirection(h, s, n, dir) ==
  IF dir = "LEFT" THEN rotateRight(h, s, n) ELSE rotateLeft(h, s, n)

----------------------------------------------------------------------------
\* Insertion

\* Case 4: parent and uncle to BLACK, grandparent to RED
insertRecolor(h, node) ==
  paint(paint(paint(h, h.parent[node], BLACK), uncle(h, node), BLACK),
        grandParent(h, node), RED)

\* Case 5, Step 1 as its comment words it: l-rotate for a LEFT child, r-rotate
\* for a RIGHT child
insertCase5AsCommented(h, s, node) ==
  IF direction(h, node) = "LEFT"
    THEN rotateLeft(h, s, h.parent[node])
    ELSE rotateRight(h, s, h.parent[node])

\* Case 5, Step 1: rotate the parent
insertCase5(h, s, node) ==
  IF direction(h, node) = "LEFT"
    THEN rotateRight(h, s, h.parent[node])
    ELSE rotateLeft(h, s, h.parent[node])

\* Case 6, Step 2 with the parent painted BLACK and the grandparent left as
\* it is
insertRepaintParentOnly(h, node) ==
  IF h.aborted THEN h
  ELSE paint(h, h.parent[node], BLACK)

\* Case 6, Step 2: repaint
insertRepaint(h, node) ==
  IF h.aborted THEN h
  ELSE paint(paint(h, h.parent[node], BLACK), sibling(h, node), RED)

\* Case 6: rotate the grandparent, repaint
insertCase6(h, s, node) ==
  IF h.aborted THEN h
  ELSE IF isRoot(h, h.parent[node]) THEN Abort(h)
  ELSE insertRepaint(IF direction(h, h.parent[node]) = "LEFT"
                       THEN rotateRight(h, s, grandParent(h, node))
                       ELSE rotateLeft(h, s, grandParent(h, node)),
                     node)

RECURSIVE maintainAfterInsert(_, _, _)
maintainAfterInsert(h, s, node) ==
  IF isRoot(h, node) THEN paint(h, node, BLACK)
  ELSE IF isBlack(h, h.parent[node]) THEN h
  ELSE IF hasUncle(h, node) /\ isRed(h, uncle(h, node))
    THEN maintainAfterInsert(insertRecolor(h, node), s, grandParent(h, node))
  ELSE IF ~hasUncle(h, node) \/ isBlack(h, uncle(h, node)) THEN
    IF direction(h, node) # direction(h, h.parent[node])
      THEN \* node = parent
           insertCase6(insertCase5(h, s, node), s, h.parent[node])
      ELSE insertCase6(h, s, node)
  ELSE h

\* insert(value, node, p) overwriting the mapped value of an equivalent key
RECURSIVE insertNodeOverwrite(_, _, _, _, _)
insertNodeOverwrite(h, k, v, p, side) ==
  IF (IF side = "left" THEN h.left[p] ELSE h.right[p]) = Null
    THEN [h |-> setChild(NewNode(h, Alloc(h, k), k, v, p, RED), p, side, Alloc(h, k)),
          node |-> Alloc(h, k), ok |-> TRUE]
  ELSE IF equal_key(h.key[IF side = "left" THEN h.left[p] ELSE h.right[p]], k)
    THEN [h |-> [h EXCEPT !.val[IF side = "left" THEN h.left[p] ELSE h.right[p]] = v],
          node |-> IF side = "left" THEN h.left[p] ELSE h.right[p],
          ok |-> FALSE]
  ELSE IF Compare(k, h.key[IF side = "left" THEN h.left[p] ELSE h.right[p]])
    THEN insertNodeOverwrite(h, k, v,
                             IF side = "left" THEN h.left[p] ELSE h.right[p], "left")
  ELSE insertNodeOverwrite(h, k, v,
                           IF side = "left" THEN h.left[p] ELSE h.right[p], "right")

\* insert(value, node, p) descending to the wrong side: right for a smaller
\* key, left for a larger one.
RECURSIVE insertNodeWrongSide(_, _, _, _, _)
insertNodeWrongSide(h, k, v, p, side) ==
  IF (IF side = "left" THEN h.left[p] ELSE h.right[p]) = Null
    THEN [h |-> setChild(NewNode(h, Alloc(h, k), k, v, p, RED), p, side, Alloc(h, k)),
          node |-> Alloc(h, k), ok |-> TRUE]
  ELSE IF equal_key(h.key[IF side = "left" THEN h.left[p] ELSE h.right[p]], k)
    THEN [h |-> h, node |-> IF side = "left" THEN h.left[p] ELSE h.right[p],
          ok |-> FALSE]
  ELSE IF Compare(k, h.key[IF side = "left" THEN h.left[p] ELSE h.right[p]])
    THEN insertNodeWrongSide(h, k, v,
                             IF side = "left" THEN h.left[p] ELSE h.right[p], "right")
  ELSE insertNodeWrongSide(h, k, v,
                           IF side = "left" THEN h.left[p] ELSE h.right[p], "left")

\* insert(value, node, p): node is the slot `side` of p.  The result is the
\* heap, the node found or made, and whether it was made.
RECURSIVE insertNode(_, _, _, _, _)
insertNode(h, k, v, p, side) ==
  IF (IF side = "left" THEN h.left[p] ELSE h.right[p]) = Null
    THEN [h |-> setChild(NewNode(h, Alloc(h, k), k, v, p, RED), p, side, Alloc(h, k)),
          node |-> Alloc(h, k), ok |-> TRUE]
  ELSE IF equal_key(h.key[IF side = "left" THEN h.left[p] ELSE h.right[p]], k)
    THEN [h |-> h, node |-> IF side = "left" THEN h.left[p] ELSE h.right[p],
          ok |-> FALSE]
  ELSE IF Compare(k, h.key[IF side = "left" THEN h.left[p] ELSE h.right[p]])
    THEN insertNode(h, k, v, IF side = "left" THEN h.left[p] ELSE h.right[p], "left")
  ELSE insertNode(h, k, v, IF side = "left" THEN h.left[p] ELSE h.right[p], "right")

\* find(key, node) descending to the left whatever the comparison says
RECURSIVE findNodeLeftOnly(_, _, _)
findNodeLeftOnly(h, k, node) ==
  IF node = Null \/ equal_key(k, h.key[node]) THEN node
  ELSE findNodeLeftOnly(h, k, h.left[node])

\* find(key, node)
RECURSIVE findNode(_, _, _)
findNode(h, k, node) ==
  IF node = Null \/ equal_key(k, h.key[node]) THEN node
  ELSE IF Compare(k, h.key[node]) THEN findNode(h, k, h.left[node])
  ELSE findNode(h, k, h.right[node])

----------------------------------------------------------------------------
\* Deletion

swapLeft(h, lhs, rhs) == [h EXCEPT !.left[lhs] = h.left[rhs], !.left[rhs] = h.left[lhs]]

swapRight(h, lhs, rhs) == [h EXCEPT !.right[lhs] = h.right[rhs], !.right[rhs] = h.right[lhs]]

swapParent(h, lhs, rhs) ==
  [h EXCEPT !.parent[lhs] = h.parent[rhs], !.parent[rhs] = h.parent[lhs]]

swapColor(h, lhs, rhs) == [h EXCEPT !.color[lhs] = h.color[rhs], !.color[rhs] = h.color[lhs]]

\* if (x->parent) { if (x->parent->left == y) x->parent->left = x;
\*                  else if (x->parent->right == y) x->parent->right = x; }
relink(h, x, y) ==
  IF h.parent[x] = Null THEN h
  ELSE IF h.left[h.parent[x]] = y THEN setLeft(h, h.parent[x], x)
  ELSE IF h.right[h.parent[x]] = y THEN setRight(h, h.parent[x], x)
  ELSE h

\* swapNode exchanging the pairs the two nodes hold, the links left alone
swapNodeData(h, lhs, rhs) ==
  [h EXCEPT !.key = [@ EXCEPT ![lhs] = h.key[rhs], ![rhs] = h.key[lhs]],
            !.val = [@ EXCEPT ![lhs] = h.val[rhs], ![rhs] = h.val[lhs]]]

\* swapNode leaving the slot above lhs as it was
swapNodeSlotKept(h, lhs, rhs) ==
  IF lhs = rhs THEN h
  ELSE swapColor(
         relink(
           swapParent(
             adoptRight(
               adoptLeft(
                 adoptRight(
                   adoptLeft(swapRight(swapLeft(h, lhs, rhs), lhs, rhs), lhs),
                   lhs),
                 rhs),
               rhs),
             lhs, rhs),
           lhs, rhs),
         lhs, rhs)

swapNode(h, lhs, rhs) ==
  IF lhs = rhs THEN h
  ELSE swapColor(
         relink(
           relink(
             swapParent(
               adoptRight(
                 adoptLeft(
                   adoptRight(
                     adoptLeft(swapRight(swapLeft(h, lhs, rhs), lhs, rhs), lhs),
                     lhs),
                   rhs),
                 rhs),
               lhs, rhs),
             lhs, rhs),
           rhs, lhs),
         lhs, rhs)

\* Case 1: sibling is RED
removeCase1(h, s, node, dir, sib, parent) ==
  IF ~(/\ parent # Null /\ isBlack(h, parent)
       /\ h.left[sib] # Null /\ isBlack(h, h.left[sib])
       /\ h.right[sib] # Null /\ isBlack(h, h.right[sib]))
    THEN Abort(h)
    ELSE paint(paint(rotateSameDirection(h, s, h.parent[node], dir), sib, BLACK),
               parent, RED)

\* Case 4 with the rotation alone, nothing repainted
removeCase4RotationOnly(h, s, dir, sib, closeNephew) ==
  rotateOppositeDirection(h, s, sib, dir)

\* Case 4: close nephew is RED
removeCase4(h, s, dir, sib, closeNephew) ==
  paint(paint(rotateOppositeDirection(h, s, sib, dir), closeNephew, BLACK), sib, RED)

\* Case 5, Steps 2 and 3
removeCase5Paint(h, node, sib, distantNephew) ==
  IF h.aborted THEN h
  ELSE paint(paint(paint(h, sib, h.color[h.parent[node]]), h.parent[node], BLACK),
             distantNephew, BLACK)

\* Case 5: distant nephew is RED
removeCase5(h, s, node, dir, sib, distantNephew) ==
  IF h.aborted THEN h
  ELSE IF distantNephew = Null \/ ~isRed(h, distantNephew) THEN Abort(h)
  ELSE removeCase5Paint(rotateSameDirection(h, s, h.parent[node], dir),
                        node, sib, distantNephew)

\* Case 5 with sibling and distant nephew read again after Case 4
removeCase5Refreshed(h, s, node, dir) ==
  IF h.aborted THEN h
  ELSE removeCase5(h, s, node, dir, sibling(h, node),
                   IF dir = "LEFT" THEN h.right[sibling(h, node)]
                                   ELSE h.left[sibling(h, node)])

RECURSIVE maintainAfterRemove(_, _, _)

\* Cases 2 to 5, the sibling and the nephews read
removeByNephews(h, s, node, dir, sib, closeNephew, distantNephew) ==
  IF ~isBlack(h, sib) THEN Abort(h)
  ELSE IF /\ (closeNephew = Null \/ isBlack(h, closeNephew))
          /\ (distantNephew = Null \/ isBlack(h, distantNephew))
    THEN IF isRed(h, h.parent[node])
           THEN \* Case 2
                paint(paint(h, sib, RED), h.parent[node], BLACK)
           ELSE \* Case 3
                maintainAfterRemove(paint(h, sib, RED), s, h.parent[node])
  ELSE IF closeNephew # Null /\ isRed(h, closeNephew)
    THEN removeCase5Refreshed(removeCase4(h, s, dir, sib, closeNephew), s, node, dir)
  ELSE removeCase5(h, s, node, dir, sib, distantNephew)

\* what follows Case 1; a null sibling is dereferenced here
removeCases(h, s, node, dir, sib) ==
  IF h.aborted THEN h
  ELSE IF sib = Null THEN Abort(h)
  ELSE removeByNephews(h, s, node, dir, sib,
                       IF dir = "LEFT" THEN h.left[sib] ELSE h.right[sib],
                       IF dir = "LEFT" THEN h.right[sib] ELSE h.left[sib])

\* the sibling as it is once Case 1 is over
removeAfterCase1(h, s, node, dir) ==
  IF h.aborted THEN h ELSE removeCases(h, s, node, dir, sibling(h, node))

\* maintainAfterRemove going to Cases 2 to 5 with the sibling as found, RED
\* or BLACK
maintainAfterRemoveNoCase1(h, s, node) ==
  IF isRoot(h, node) THEN h
  ELSE IF ~(isBlack(h, node) /\ hasSibling(h, node)) THEN Abort(h)
  ELSE removeCases(h, s, node, direction(h, node), sibling(h, node))

maintainAfterRemove(h, s, node) ==
  IF isRoot(h, node) THEN h
  ELSE IF ~(isBlack(h, node) /\ hasSibling(h, node)) THEN Abort(h)
  ELSE IF isRed(h, sibling(h, node))
    THEN removeAfterCase1(
           removeCase1(h, s, node, direction(h, node), sibling(h, node), h.parent[node]),
           s, node, direction(h, node))
  ELSE removeCases(h, s, node, direction(h, node), sibling(h, node))

\* The descent of remove's Case 1: the leftmost node below n, with the node
\* stepped from last (prev).
RECURSIVE successorWalk(_, _, _)
successorWalk(h, n, prev) ==
  IF h.left[n] = Null THEN [successor |-> n, parent |-> prev]
  ELSE successorWalk(h, h.left[n], n)

\* remove, Case 1: p is node->parent, w the successor and its parent
removeSwap(h, node, p, w) ==
  maintainRelationship(maintainRelationship(swapNode(h, node, w.successor), w.parent), p)

\* delete node, once the fixup is through
removeDelete(h, node) == IF h.aborted THEN h ELSE DeleteNode(h, node)

\* the leaf taken out of its parent's left slot whichever child it is
removeUnlinkLeftOnly(h, node) ==
  IF h.aborted THEN h
  ELSE setLeft(h, h.parent[node], Null)

\* remove, Case 2: unlink the leaf after the fixup
removeUnlink(h, node) ==
  IF h.aborted THEN h
  ELSE IF direction(h, node) = "LEFT" THEN setLeft(h, h.parent[node], Null)
  ELSE setRight(h, h.parent[node], Null)

\* remove, Case 2, with the leaf unlinked before the fixup runs
removeLeafUnlinkedFirst(h, s, node) ==
  IF isRoot(h, node) THEN Abort(h)
  ELSE removeDelete(
         IF isBlack(h, node) THEN maintainAfterRemove(removeUnlink(h, node), s, node)
                             ELSE removeUnlink(h, node),
         node)

\* remove, Case 2
removeLeaf(h, s, node) ==
  IF isRoot(h, node) THEN Abort(h)
  ELSE removeDelete(
         removeUnlink(IF isBlack(h, node) THEN maintainAfterRemove(h, s, node) ELSE h,
                      node),
         node)

\* remove, Case 3, Step 2 with a RED replacement left RED
removeSpliceFixUnpainted(h, s, node, replacement) ==
  IF ~isBlack(h, node) \/ isRed(h, replacement) THEN h
  ELSE maintainAfterRemove(h, s, replacement)

\* remove, Case 3, Step 2
removeSpliceFix(h, s, node, replacement) ==
  IF ~isBlack(h, node) THEN h
  ELSE IF isRed(h, replacement) THEN paint(h, replacement, BLACK)
  ELSE maintainAfterRemove(h, s, replacement)

\* remove, Case 3
removeSplice(h, s, node, parent, replacement) ==
  removeDelete(
    removeSpliceFix(
      setParent(setSlot(h, s, parent, direction(h, node), replacement),
                replacement, parent),
      s, node, replacement),
    node)

\* remove, Cases 2 and 3
removeUnlinked(h, s, node) ==
  IF isLeaf(h, node) THEN removeLeaf(h, s, node)
  ELSE IF ~(h.left[node] = Null \/ h.right[node] = Null) THEN Abort(h)
  ELSE removeSplice(h, s, node, h.parent[node],
                    IF h.left[node] # Null THEN h.left[node] ELSE h.right[node])

\* remove(node); size is this->size()
remove(h, s, size, node) ==
  IF node = Null THEN Abort(h)
  ELSE IF size = 1 THEN DeleteNode(setLeft(h, s, Null), node)
  ELSE IF h.left[node] # Null /\ h.right[node] # Null
    THEN removeUnlinked(
           removeSwap(h, node, h.parent[node], successorWalk(h, h.right[node], node)),
           s, node)
  ELSE removeUnlinked(h, s, node)

----------------------------------------------------------------------------
\* Whole-tree routines

\* clear(node) going down the left subtree only
RECURSIVE clearNodeLeftOnly(_, _)
clearNodeLeftOnly(h, node) ==
  IF node = Null THEN h
  ELSE DeleteNode(clearNodeLeftOnly(setParent(h, node, Null), h.left[node]), node)

RECURSIVE clearNode(_, _)

clearLeft(h, node) == IF h.left[node] # Null THEN clearNode(h, h.left[node]) ELSE h

clearRight(h, node) == IF h.right[node] # Null THEN clearNode(h, h.right[node]) ELSE h

\* clear(node)
clearNode(h, node) ==
  IF node = Null THEN h
  ELSE DeleteNode(clearRight(clearLeft(setParent(h, node, Null), node), node), node)

RECURSIVE copy(_, _, _, _)

\* copy, the node made at address n and stored into the slot
copyChildren(h, ori, n) ==
  adoptRight(copy(adoptLeft(copy(h, n, "left", h.left[ori]), n), n, "right", h.right[ori]),
             n)

\* copy(node, ori): node is the slot `side` of p, and is left as it was when
\* ori is nullptr.
copy(h, p, side, ori) ==
  IF ori = Null THEN h
  ELSE copyChildren(
         setChild(NewNode(h, Alloc(h, h.key[ori]), h.key[ori], h.val[ori], Null,
                          h.color[ori]),
                  p, side, Alloc(h, h.key[ori])),
         ori, Alloc(h, h.key[ori]))

----------------------------------------------------------------------------
\* Iterators.  An iterator is the pair (map_ptr, ptr); a step yields the new
\* ptr and the exception thrown, if any.

RECURSIVE leftmost(_, _)
leftmost(h, n) == IF h.left[n] = Null THEN n ELSE leftmost(h, h.left[n])

RECURSIVE rightmost(_, _)
rightmost(h, n) == IF h.right[n] = Null THEN n ELSE rightmost(h, h.right[n])

begin(h, m) == leftmost(h, Sent(m))

end(m) == Sent(m)

\* the loop of operator++ without the step that follows it
RECURSIVE climbFromRightNoStep(_, _)
climbFromRightNoStep(h, ptr) ==
  IF direction(h, ptr) = "RIGHT" THEN climbFromRightNoStep(h, h.parent[ptr]) ELSE ptr

\* the loop of operator++: leave right children upwards, then one step more
RECURSIVE climbFromRight(_, _)
climbFromRight(h, ptr) ==
  IF direction(h, ptr) = "RIGHT" THEN climbFromRight(h, h.parent[ptr]) ELSE h.parent[ptr]

\* operator-- going up one parent only
climbFromLeftOnce(h, ptr) == h.parent[ptr]

\* the loop of operator--
RECURSIVE climbFromLeft(_, _)
climbFromLeft(h, ptr) ==
  IF direction(h, ptr) = "LEFT" THEN climbFromLeft(h, h.parent[ptr]) ELSE h.parent[ptr]

\* operator++ wrapping round from end() to the first element
incrementWraps(h, m, ptr) ==
  IF ptr = Sent(m) THEN [ptr |-> leftmost(h, Sent(m)), exc |-> "none"]
  ELSE IF h.right[ptr] # Null THEN [ptr |-> leftmost(h, h.right[ptr]), exc |-> "none"]
  ELSE [ptr |-> climbFromRight(h, ptr), exc |-> "none"]

\* iterator& operator++()
increment(h, m, ptr) ==
  IF ptr = Sent(m) THEN [ptr |-> ptr, exc |-> "invalid_iterator"]
  ELSE IF h.right[ptr] # Null THEN [ptr |-> leftmost(h, h.right[ptr]), exc |-> "none"]
  ELSE [ptr |-> climbFromRight(h, ptr), exc |-> "none"]

\* iterator& operator--()
decrement(h, m, ptr) ==
  IF ptr = leftmost(h, Sent(m)) THEN [ptr |-> ptr, exc |-> "invalid_iterator"]
  ELSE IF h.left[ptr] # Null THEN [ptr |-> rightmost(h, h.left[ptr]), exc |-> "none"]
  ELSE [ptr |-> climbFromLeft(h, ptr), exc |-> "none"]

\* the loop of iterator::operator++(int) without the step that follows it
RECURSIVE climbToLeftChildNoStep(_, _)
climbToLeftChildNoStep(h, ptr) ==
  IF h.left[h.parent[ptr]] # ptr THEN climbToLeftChildNoStep(h, h.parent[ptr]) ELSE ptr

\* the loop of iterator::operator++(int): while (ptr->parent->left != ptr)
RECURSIVE climbToLeftChild(_, _)
climbToLeftChild(h, ptr) ==
  IF h.left[h.parent[ptr]] # ptr THEN climbToLeftChild(h, h.parent[ptr]) ELSE h.parent[ptr]

\* iterator operator++(int): the iterator's new ptr, the exception, and the
\* ptr of the iterator returned (cur)
incrementPost(h, m, ptr) ==
  IF ptr = Sent(m) THEN [ptr |-> ptr, exc |-> "invalid_iterator", ret |-> Null]
  ELSE IF h.right[ptr] # Null
    THEN [ptr |-> leftmost(h, h.right[ptr]), exc |-> "none", ret |-> ptr]
  ELSE [ptr |-> climbToLeftChild(h, ptr), exc |-> "none", ret |-> ptr]

\* iterator operator--(int)
decrementPost(h, m, ptr) ==
  IF ptr = leftmost(h, Sent(m)) THEN [ptr |-> ptr, exc |-> "invalid_iterator", ret |-> Null]
  ELSE IF h.left[ptr] # Null
    THEN [ptr |-> rightmost(h, h.left[ptr]), exc |-> "none", ret |-> ptr]
  ELSE [ptr |-> climbFromLeft(h, ptr), exc |-> "none", ret |-> ptr]

\* const_iterator operator++(int)
constIncrementPost(h, m, ptr) ==
  IF ptr = Sent(m) THEN [ptr |-> ptr, exc |-> "invalid_iterator", ret |-> Null]
  ELSE IF h.right[ptr] # Null
    THEN [ptr |-> leftmost(h, h.right[ptr]), exc |-> "none", ret |-> ptr]
  ELSE [ptr |-> climbFromRight(h, ptr), exc |-> "none", ret |-> ptr]

\* const_iterator& operator++()
constIncrement(h, m, ptr) ==
  IF ptr = Sent(m) THEN [ptr |-> ptr, exc |-> "invalid_iterator"]
  ELSE IF h.right[ptr] # Null THEN [ptr |-> leftmost(h, h.right[ptr]), exc |-> "none"]
  ELSE [ptr |-> climbFromRight(h, ptr), exc |-> "none"]

\* const_iterator operator--(int)
constDecrementPost(h, m, ptr) ==
  IF ptr = leftmost(h, Sent(m)) THEN [ptr |-> ptr, exc |-> "invalid_iterator", ret |-> Null]
  ELSE IF h.left[ptr] # Null
    THEN [ptr |-> rightmost(h, h.left[ptr]), exc |-> "none", ret |-> ptr]
  ELSE [ptr |-> climbFromLeft(h, ptr), exc |-> "none", ret |-> ptr]

\* const_iterator& operator--()
constDecrement(h, m, ptr) ==
  IF ptr = leftmost(h, Sent(m)) THEN [ptr |-> ptr, exc |-> "invalid_iterator"]
  ELSE IF h.left[ptr] # Null THEN [ptr |-> rightmost(h, h.left[ptr]), exc |-> "none"]
  ELSE [ptr |-> climbFromLeft(h, ptr), exc |-> "none"]

----------------------------------------------------------------------------
\* sjtu::linked_hashmap (src/linked_hashmap/data/testone/x.hpp): a hash table
\* of bucket chains (next) with a doubly linked list (before, after) running
\* through all nodes between two sentinels, head and tail.

LinkedKeys == 1..MaxLinkedKey

\* Addresses, laid out as for the map: the node made for key k gets the
\* lowest free address of {k, k + MaxLinkedKey}.
LinkedPool == 1..(2 * MaxLinkedKey)
head(m) == 2 * MaxLinkedKey + 2 * m - 1
tail(m) == 2 * MaxLinkedKey + 2 * m
LinkedNode == LinkedPool \cup {head(m) : m \in Maps} \cup {tail(m) : m \in Maps}

\* static constexpr size_t mod[5]: the capacities.  The table of the source
\* is {1009, 10007, 100003, 1000003, 10000019}; it is scaled down here so that
\* the table grows while MaxLinkedKey elements are inserted.
mod == <<2, 3, 5, 7, 11>>

\* len > capacity * LOAD_FACTOR, LOAD_FACTOR being 0.75
overloaded(size, capacity) == 4 * size > 3 * capacity

\* Hash()(key) with Hash = std::hash<Key>, Key an integer type
Hash(k) == k

\* Equal()(x, y) with Equal = std::equal_to<Key>
Equal(x, y) == x = y

\* new BucketList[capacity]
newBuckets(capacity) == [i \in 0..(capacity - 1) |-> Null]

\* node(): data, next, before and after are nullptr
BlankLinkedNode(l, n) ==
  [l EXCEPT !.next[n] = Null, !.before[n] = Null, !.after[n] = Null,
            !.key[n] = 0, !.val[n] = DefaultVal]

\* new node(x) at address n
NewLinkedNode(l, n, k, v) ==
  [l EXCEPT !.next[n] = Null, !.before[n] = Null, !.after[n] = Null,
            !.key[n] = k, !.val[n] = v, !.live = @ \cup {n}]

LinkedAlloc(l, k) == IF k \notin l.live THEN k ELSE k + MaxLinkedKey

\* delete n; delete of nullptr does nothing
DeleteLinkedNode(l, n) ==
  IF n = Null THEN l ELSE [BlankLinkedNode(l, n) EXCEPT !.live = @ \ {n}]

\* linked_hashmap(): what the two constructions at the start leave
LinkedFresh ==
  [next |-> [n \in LinkedNode |-> Null],
   before |-> [n \in LinkedNode |->
                 IF \E m \in Maps : n = tail(m) THEN n - 1 ELSE Null],
   after |-> [n \in LinkedNode |->
                IF \E m \in Maps : n = head(m) THEN n + 1 ELSE Null],
   key |-> [n \in LinkedNode |-> 0],
   val |-> [n \in LinkedNode |-> DefaultVal],
   live |-> {head(m) : m \in Maps} \cup {tail(m) : m \in Maps},
   cont |-> [m \in Maps |-> newBuckets(mod[1])],
   capacity |-> [m \in Maps |-> mod[1]],
   capp |-> [m \in Maps |-> 0],
   len |-> [m \in Maps |-> 0]]

\* The bucket key hashes to.
bucket(l, m, k) == Hash(k) % l.capacity[m]

\* BucketList::insert(n) on cont[i]
bucketInsert(l, m, i, n) == [l EXCEPT !.next[n] = l.cont[m][i], !.cont[m][i] = n]

\* BucketList::find(k), from node p on
RECURSIVE bucketFind(_, _, _)
bucketFind(l, k, p) ==
  IF p = Null \/ Equal(k, l.key[p]) THEN p ELSE bucketFind(l, k, l.next[p])

\* BucketList::erase: the loop looking for the node before the one with key
RECURSIVE bucketBefore(_, _, _)
bucketBefore(l, k, p) ==
  IF l.next[p] # Null /\ ~Equal(l.key[l.next[p]], k) THEN bucketBefore(l, k, l.next[p])
  ELSE p

\* BucketList::erase(key) on cont[i]: the heap it leaves and the node taken
\* out of the chain
bucketErase(l, m, i, k) ==
  IF l.cont[m][i] = Null THEN [l |-> l, node |-> Null]
  ELSE IF Equal(l.key[l.cont[m][i]], k)
    THEN [l |-> [l EXCEPT !.cont[m][i] = l.next[l.cont[m][i]]], node |-> l.cont[m][i]]
  ELSE IF l.next[bucketBefore(l, k, l.cont[m][i])] # Null
    THEN [l |-> [l EXCEPT !.next[bucketBefore(l, k, l.cont[m][i])] =
                            l.next[l.next[bucketBefore(l, k, l.cont[m][i])]]],
          node |-> l.next[bucketBefore(l, k, l.cont[m][i])]]
  ELSE [l |-> l, node |-> Null]

\* resize() putting only the first node of the list into its new bucket
rehashFirstOnly(l, m, p) ==
  IF p = tail(m) THEN l ELSE bucketInsert(l, m, bucket(l, m, l.key[p]), p)

\* resize(): the loop that puts every node of the list into its new bucket
RECURSIVE rehash(_, _, _)
rehash(l, m, p) ==
  IF p = tail(m) THEN l
  ELSE rehash(bucketInsert(l, m, bucket(l, m, l.key[p]), p), m, l.after[p])

\* void resize()
resize(l, m) ==
  IF l.capp[m] = 4 THEN l
  ELSE rehash([l EXCEPT !.capp[m] = @ + 1,
                        !.capacity[m] = mod[l.capp[m] + 2],
                        !.cont[m] = newBuckets(mod[l.capp[m] + 2])],
              m, l.after[head(m)])

\* insert: len++; if (len > capacity * LOAD_FACTOR && capp < 4) resize();
grow(l, m) ==
  IF overloaded(l.len[m] + 1, l.capacity[m]) /\ l.capp[m] < 4
    THEN resize([l EXCEPT !.len[m] = @ + 1], m)
    ELSE [l EXCEPT !.len[m] = @ + 1]

\* insert, the new node put at the front of the list instead of its end
linkFirst(l, m, p) ==
  [l EXCEPT !.after[p] = l.after[head(m)],
            !.before[p] = head(m),
            !.before[l.after[head(m)]] = p,
            !.after[head(m)] = p]

\* insert: p->before = tail->before; p->after = tail;
\* tail->before->after = p; tail->before = p;
linkLast(l, m, p) ==
  [l EXCEPT !.before[p] = l.before[tail(m)],
            !.after[p] = tail(m),
            !.after[l.before[tail(m)]] = p,
            !.before[tail(m)] = p]

\* insert: p = new node(value); cont[hashcode % capacity].insert(p)
chainNew(l, m, k, v) ==
  bucketInsert(NewLinkedNode(l, LinkedAlloc(l, k), k, v), m, bucket(l, m, k),
               LinkedAlloc(l, k))

\* pair<iterator, bool> insert(const value_type& value): the heap it leaves,
\* the node of the iterator it returns and the bool
linkedInsert(l, m, k, v) ==
  IF bucketFind(l, k, l.cont[m][bucket(l, m, k)]) # Null
    THEN [l |-> l, node |-> bucketFind(l, k, l.cont[m][bucket(l, m, k)]), ok |-> FALSE]
    ELSE [l |-> linkLast(chainNew(grow(l, m), m, k, v), m, LinkedAlloc(l, k)),
          node |-> LinkedAlloc(l, k), ok |-> TRUE]

\* erase: pos.ptr->before->after = pos.ptr->after;
\* pos.ptr->after->before = pos.ptr->before;
unlinkNode(l, p) ==
  [l EXCEPT !.after[l.before[p]] = l.after[p], !.before[l.after[p]] = l.before[p]]

\* erase: delete cont[Hash()(pos->first) % capacity].erase(pos->first)
unchain(l, m, k) ==
  DeleteLinkedNode(bucketErase(l, m, bucket(l, m, k), k).l,
                   bucketErase(l, m, bucket(l, m, k), k).node)

\* void erase(iterator pos), past the test of pos
linkedErase(l, m, p) ==
  [unchain(unlinkNode(l, p), m, l.key[p]) EXCEPT !.len[m] = @ - 1]

\* The nodes of the list from p to the tail sentinel, in list order.
RECURSIVE listFrom(_, _, _, _)
listFrom(l, m, p, fuel) ==
  IF p = tail(m) \/ p = Null \/ fuel = 0 THEN <<>>
  ELSE <<p>> \o listFrom(l, m, l.after[p], fuel - 1)

\* What for (it = begin(); it != end(); ++it) visits.
LinkedTraversal(l, m) == listFrom(l, m, l.after[head(m)], 2 * MaxLinkedKey + 1)

\* The nodes of the list of container m.
RECURSIVE elemsFrom(_, _, _)
elemsFrom(l, m, p) ==
  IF p = tail(m) \/ p = Null THEN {} ELSE {p} \cup elemsFrom(l, m, l.after[p])

LinkedElems(l, m) == elemsFrom(l, m, l.after[head(m)])

\* iterator operator--(int): the iterator's new ptr, the exception, and the
\* ptr of the iterator returned, iterator(f, ptr) after ptr = ptr->before
linkedDecrementPost(l, m, ptr) ==
  IF ptr = l.after[head(m)] THEN [ptr |-> ptr, exc |-> "invalid_iterator", ret |-> Null]
  ELSE [ptr |-> l.before[ptr], exc |-> "none", ret |-> l.before[ptr]]

\* const_iterator operator--(int): the iterator returned is
\* const_iterator(f, p), p the ptr before the step
linkedConstDecrementPost(l, m, ptr) ==
  IF ptr = l.after[head(m)] THEN [ptr |-> ptr, exc |-> "invalid_iterator", ret |-> Null]
  ELSE [ptr |-> l.before[ptr], exc |-> "none", ret |-> ptr]

\* The sequence s without its elements equal to k.
Without(s, k) == SelectSeq(s, LAMBDA x : x # k)

\* The iterators a caller can pass to a linked_hashmap: to an element or the
\* end of one, or default-constructed.
LinkedPositions ==
  UNION {{[f |-> m, ptr |-> n] : n \in LinkedElems(lhm, m) \cup {tail(m)}} : m \in Maps}
    \cup {[f |-> 0, ptr |-> Null]}

\* erase: pos.f != this || pos == end()
linkedEraseThrows(m, pos) == pos.f # m \/ pos = [f |-> m, ptr |-> tail(m)]

\* pair<iterator, bool> insert(const value_type& value)
LinkedInsert(m, k, v) ==
  /\ lhm' = linkedInsert(lhm, m, k, v).l
  /\ inserted' = IF linkedInsert(lhm, m, k, v).ok
                   THEN [inserted EXCEPT ![m] = Append(@, k)]
                   ELSE inserted
  /\ last' = [op |-> "linked_insert",
              kind |-> IF linkedInsert(lhm, m, k, v).ok THEN "new" ELSE "dup"]
  /\ UNCHANGED <<heap, len, undefined, derived, comparator>>

\* void erase(iterator pos)
LinkedErase(m, pos) ==
  /\ IF linkedEraseThrows(m, pos)
       THEN /\ last' = [op |-> "linked_erase", kind |-> "throw"]
            /\ UNCHANGED <<lhm, inserted>>
       ELSE /\ last' = [op |-> "linked_erase", kind |-> "erased"]
            /\ lhm' = linkedErase(lhm, m, pos.ptr)
            /\ inserted' = [inserted EXCEPT ![m] = Without(@, lhm.key[pos.ptr])]
  /\ UNCHANGED <<heap, len, undefined, derived, comparator>>

\* void clear(): every node of the list deleted, the sentinels linked to each
\* other, and a new table of the first capacity
linkedClear(l, m) ==
  LET gone == LinkedElems(l, m)
  IN  [l EXCEPT !.next = [n \in LinkedNode |-> IF n \in gone THEN Null ELSE l.next[n]],
                !.key = [n \in LinkedNode |-> IF n \in gone THEN 0 ELSE l.key[n]],
                !.val = [n \in LinkedNode |-> IF n \in gone THEN DefaultVal ELSE l.val[n]],
                !.before = [n \in LinkedNode |->
                              IF n \in gone THEN Null
                              ELSE IF n = tail(m) THEN head(m) ELSE l.before[n]],
                !.after = [n \in LinkedNode |->
                             IF n \in gone THEN Null
                             ELSE IF n = head(m) THEN tail(m) ELSE l.after[n]],
                !.live = @ \ gone,
                !.len[m] = 0, !.capp[m] = 0, !.capacity[m] = mod[1],
                !.cont[m] = newBuckets(mod[1])]

\* the loop of the copy constructor, at node p of other and node cur of this:
\* cur->after = new node(*(p->data), nullptr, cur, nullptr);
\* cont[hashcode].insert(cur->after)
RECURSIVE cloneList(_, _, _, _, _)
cloneList(l, m, o, p, cur) ==
  IF p = tail(o) THEN [l |-> l, cur |-> cur]
  ELSE cloneList(
         bucketInsert(
           [NewLinkedNode(l, LinkedAlloc(l, l.key[p]), l.key[p], l.val[p])
              EXCEPT !.before[LinkedAlloc(l, l.key[p])] = cur,
                     !.after[cur] = LinkedAlloc(l, l.key[p])],
           m, bucket(l, m, l.key[p]), LinkedAlloc(l, l.key[p])),
         m, o, l.after[p], LinkedAlloc(l, l.key[p]))

\* linked_hashmap(const linked_hashmap& other), this being m and other o
linkedCopy(l, m, o) ==
  LET r == cloneList(
             [BlankLinkedNode(BlankLinkedNode(l, head(m)), tail(m))
                EXCEPT !.capp[m] = l.capp[o], !.capacity[m] = l.capacity[o],
                       !.len[m] = l.len[o], !.cont[m] = newBuckets(l.capacity[o])],
             m, o, l.after[head(o)], head(m))
  IN  [r.l EXCEPT !.after[r.cur] = tail(m), !.before[tail(m)] = r.cur]

\* the loop of operator=, at node p of other and node q of this:
\* q->after = new node(*(p->data), cont[hash].head, q);
\* cont[hash].head = q = q->after
RECURSIVE assignList(_, _, _, _, _)
assignList(l, m, o, p, q) ==
  IF p = tail(o) THEN [l |-> l, q |-> q]
  ELSE assignList(
         [NewLinkedNode(l, LinkedAlloc(l, l.key[p]), l.key[p], l.val[p])
            EXCEPT !.next[LinkedAlloc(l, l.key[p])] = l.cont[m][bucket(l, m, l.key[p])],
                   !.before[LinkedAlloc(l, l.key[p])] = q,
                   !.after[q] = LinkedAlloc(l, l.key[p]),
                   !.cont[m][bucket(l, m, l.key[p])] = LinkedAlloc(l, l.key[p])],
         m, o, l.after[p], LinkedAlloc(l, l.key[p]))

\* linked_hashmap& operator=(const linked_hashmap& other)
linkedAssign(l, m, o) ==
  IF o = m THEN l
  ELSE LET r == assignList(
                  [linkedClear(l, m)
                     EXCEPT !.capacity[m] = l.capacity[o], !.capp[m] = l.capp[o],
                            !.len[m] = l.len[o], !.cont[m] = newBuckets(l.capacity[o])],
                  m, o, l.after[head(o)], head(m))
       IN  [r.l EXCEPT !.after[r.q] = tail(m), !.before[tail(m)] = r.q]

\* void clear()
LinkedClear(m) ==
  /\ lhm' = linkedClear(lhm, m)
  /\ inserted' = [inserted EXCEPT ![m] = <<>>]
  /\ last' = [op |-> "linked_clear",
              kind |-> IF LinkedElems(lhm, m) = {} THEN "empty" ELSE "nodes"]
  /\ UNCHANGED <<heap, len, undefined, derived, comparator>>

\* linked_hashmap(const linked_hashmap& other): m is made as a copy of o.
\* The storage of m holds an object that was default-constructed and never
\* filled, which stands for storage not constructed yet.
LinkedCopy(m, o) ==
  /\ m # o
  /\ LinkedElems(lhm, m) = {} /\ lhm.capp[m] = 0
  /\ lhm' = linkedCopy(lhm, m, o)
  /\ inserted' = [inserted EXCEPT ![m] = inserted[o]]
  /\ last' = [op |-> "linked_copy",
              kind |-> IF LinkedElems(lhm, o) = {} THEN "empty" ELSE "nodes"]
  /\ UNCHANGED <<heap, len, undefined, derived, comparator>>

\* linked_hashmap& operator=(const linked_hashmap& other)
LinkedAssign(m, o) ==
  /\ lhm' = linkedAssign(lhm, m, o)
  /\ inserted' = [inserted EXCEPT ![m] = inserted[o]]
  /\ last' = [op |-> "linked_assign",
              kind |-> IF m = o THEN "self"
                       ELSE IF LinkedElems(lhm, o) = {} THEN "empty" ELSE "nodes"]
  /\ UNCHANGED <<heap, len, undefined, derived, comparator>>

----------------------------------------------------------------------------
\* The containers

Root(h, m) == h.left[Sent(m)]

Constructed(h, m) == Sent(m) \in h.live

\* sentinel->left points at a cell this container does not own: one that was
\* released, or one that was handed out again since.
Wild(h, m) ==
  /\ Root(h, m) # Null
  /\ (Root(h, m) \notin h.live \/ h.parent[Root(h, m)] # Sent(m))

RECURSIVE Subtree(_, _)
Subtree(h, n) ==
  IF n = Null THEN {} ELSE {n} \cup Subtree(h, h.left[n]) \cup Subtree(h, h.right[n])

\* The nodes a caller can hold an iterator to.
Elems(h, m) == IF Wild(h, m) THEN {} ELSE Subtree(h, Root(h, m))

Running == ~undefined /\ ~heap.aborted

\* The value the caller maps key k to.
ValueFor(k) == k % (MaxVal + 1)

Init ==
  /\ heap = [left |-> [n \in Node |-> Null], right |-> [n \in Node |-> Null],
             parent |-> [n \in Node |-> Null], color |-> [n \in Node |-> RED],
             key |-> [n \in Node |-> 0], val |-> [n \in Node |-> DefaultVal],
             live |-> {Sent(m) : m \in Maps}, aborted |-> FALSE]
  /\ len = [m \in Maps |-> 0]
  /\ last = [op |-> "construct", kind |-> "none"]
  /\ undefined = FALSE
  /\ derived = FALSE
  /\ comparator = "less"
  /\ lhm = LinkedFresh
  /\ inserted = [m \in Maps |-> <<>>]

\* insert(const value_type&), the fixup run on a node that was made
insertFix(p, s) ==
  [h |-> IF p.ok THEN maintainAfterInsert(p.h, s, p.node) ELSE p.h,
   node |-> p.node, ok |-> p.ok]

\* pair<iterator, bool> insert(const value_type& value): the heap it leaves,
\* the node of the iterator it returns and the bool
insert(h, m, k, v) == insertFix(insertNode(h, k, v, Sent(m), "left"), Sent(m))

\* iterator find(const Key& key): the node of the iterator it returns
find(h, m, k) ==
  IF findNode(h, k, Root(h, m)) # Null THEN findNode(h, k, Root(h, m)) ELSE end(m)

\* ptr->data: the pair a node holds; nullptr for a node made by RBTNode()
data(h, n) == IF h.key[n] = 0 THEN Null ELSE n

\* value_type& iterator::operator*() const: the node whose pair is referred
\* to, or the exception thrown
dereference(h, m, ptr) ==
  IF ptr = Sent(m) THEN [exc |-> "invalid_iterator"]
  ELSE [exc |-> "none", data |-> data(h, ptr)]

\* const value_type& const_iterator::operator*() const
constDereference(h, m, ptr) ==
  IF ptr = Sent(m) THEN [exc |-> "invalid_iterator"]
  ELSE [exc |-> "none", data |-> data(h, ptr)]

\* value_type* iterator::operator->() const noexcept: the pointer returned
arrow(h, m, ptr) == [exc |-> "none", data |-> data(h, ptr)]

\* const value_type* const_iterator::operator->() const noexcept
constArrow(h, m, ptr) == [exc |-> "none", data |-> data(h, ptr)]

\* const_iterator find(const Key& key) const
findConst(h, m, k) ==
  IF findNode(h, k, Root(h, m)) # Null THEN findNode(h, k, Root(h, m)) ELSE end(m)

\* size_t count(const Key& key)
count(h, m, k) == IF findNode(h, k, Root(h, m)) # Null THEN 1 ELSE 0

\* at() behaving as the mutable operator[] does: an absent key is inserted
atInserting(h, m, k) ==
  [h |-> insert(h, m, k, DefaultVal).h,
   val |-> insert(h, m, k, DefaultVal).h.val[insert(h, m, k, DefaultVal).node],
   exc |-> "none"]

\* T& at(const Key& key): the heap it leaves, and the value referred to or
\* the exception thrown
at(h, m, k) ==
  IF findNode(h, k, Root(h, m)) # Null
    THEN [h |-> h, val |-> h.val[findNode(h, k, Root(h, m))], exc |-> "none"]
    ELSE [h |-> h, exc |-> "index_out_of_bound"]

\* const T& at(const Key& key) const
atConst(h, m, k) ==
  IF findNode(h, k, Root(h, m)) # Null
    THEN [h |-> h, val |-> h.val[findNode(h, k, Root(h, m))], exc |-> "none"]
    ELSE [h |-> h, exc |-> "index_out_of_bound"]

\* const T& operator[](const Key& key) const
subscriptConst(h, m, k) ==
  IF findNode(h, k, Root(h, m)) # Null
    THEN [h |-> h, val |-> h.val[findNode(h, k, Root(h, m))], exc |-> "none"]
    ELSE [h |-> h, exc |-> "index_out_of_bound"]

Insert(m, k, v) ==
  /\ Running /\ Constructed(heap, m) /\ ~Wild(heap, m)
  /\ heap' = insert(heap, m, k, v).h
  /\ len' = IF insert(heap, m, k, v).ok THEN [len EXCEPT ![m] = @ + 1] ELSE len
  /\ last' = [op |-> "insert", kind |-> IF insert(heap, m, k, v).ok THEN "new" ELSE "dup"]
  /\ UNCHANGED <<undefined, derived, comparator, lhm, inserted>>

\* operator[] resetting the element it finds to the default value
SubscriptResets(m, k) ==
  /\ Running /\ Constructed(heap, m) /\ ~Wild(heap, m)
  /\ heap' = [insert(heap, m, k, DefaultVal).h
                EXCEPT !.val[insert(heap, m, k, DefaultVal).node] = DefaultVal]
  /\ len' = IF insert(heap, m, k, DefaultVal).ok THEN [len EXCEPT ![m] = @ + 1] ELSE len
  /\ last' = [op |-> "subscript",
              kind |-> IF insert(heap, m, k, DefaultVal).ok THEN "new" ELSE "dup"]
  /\ UNCHANGED <<undefined, derived, comparator, lhm, inserted>>

\* T& operator[](const Key& key), the reference only read
Subscript(m, k) ==
  /\ Running /\ Constructed(heap, m) /\ ~Wild(heap, m)
  /\ heap' = insert(heap, m, k, DefaultVal).h
  /\ len' = IF insert(heap, m, k, DefaultVal).ok THEN [len EXCEPT ![m] = @ + 1] ELSE len
  /\ last' = [op |-> "subscript",
              kind |-> IF insert(heap, m, k, DefaultVal).ok THEN "new" ELSE "dup"]
  /\ UNCHANGED <<undefined, derived, comparator, lhm, inserted>>

\* m[key] = v: operator[] and a store through the reference it returns
SubscriptAssign(m, k, v) ==
  /\ Running /\ Constructed(heap, m) /\ ~Wild(heap, m)
  /\ heap' = [insert(heap, m, k, DefaultVal).h
                EXCEPT !.val[insert(heap, m, k, DefaultVal).node] = v]
  /\ len' = IF insert(heap, m, k, DefaultVal).ok THEN [len EXCEPT ![m] = @ + 1] ELSE len
  /\ last' = [op |-> "store",
              kind |-> IF insert(heap, m, k, DefaultVal).ok THEN "new" ELSE "dup"]
  /\ UNCHANGED <<undefined, derived, comparator, lhm, inserted>>

\* m.at(key) = v: at() and a store through the T& it returns; a throw is
\* recorded as "throw"
AtAssign(m, k, v) ==
  /\ Running /\ Constructed(heap, m) /\ ~Wild(heap, m)
  /\ IF at(heap, m, k).exc = "none"
       THEN /\ heap' = [at(heap, m, k).h EXCEPT !.val[findNode(heap, k, Root(heap, m))] = v]
            /\ last' = [op |-> "at_store", kind |-> "stored"]
       ELSE /\ heap' = at(heap, m, k).h
            /\ last' = [op |-> "at_store", kind |-> "throw"]
  /\ UNCHANGED <<len, undefined, derived, comparator, lhm, inserted>>

\* (*it).second = v, it an iterator of m at ptr: operator*() and a store
\* through the value_type& it returns
IteratorAssign(m, ptr, v) ==
  /\ Running /\ Constructed(heap, m) /\ ~Wild(heap, m)
  /\ ptr \in Elems(heap, m) \cup {Sent(m)}
  /\ IF dereference(heap, m, ptr).exc = "none"
       THEN /\ heap' = [heap EXCEPT !.val[dereference(heap, m, ptr).data] = v]
            /\ last' = [op |-> "iterator_store", kind |-> "stored"]
       ELSE /\ last' = [op |-> "iterator_store", kind |-> "throw"]
            /\ UNCHANGED heap
  /\ UNCHANGED <<len, undefined, derived, comparator, lhm, inserted>>

\* The iterators a caller can pass: to an element or the end of a container,
\* or default-constructed.
Positions ==
  {[mp |-> m, ptr |-> n] : m \in {x \in Maps : Constructed(heap, x)},
                           n \in Node} \cup {[mp |-> 0, ptr |-> Null]}

ValidPosition(pos) ==
  \/ pos.mp = 0 /\ pos.ptr = Null
  \/ /\ pos.mp \in Maps /\ Constructed(heap, pos.mp)
     /\ pos.ptr \in Elems(heap, pos.mp) \cup {Sent(pos.mp)}

\* Which way remove(node) goes, for the record of the call.
RemoveKind(h, size, node) ==
  IF size = 1 THEN "only"
  ELSE IF h.left[node] # Null /\ h.right[node] # Null
         THEN IF isRoot(h, node) THEN "tworoot" ELSE "two"
  ELSE IF isLeaf(h, node) THEN "leaf"
  ELSE IF isRoot(h, node) THEN "oneroot" ELSE "one"

\* void erase(iterator pos): whether it throws invalid_iterator
eraseThrows(m, pos) == (pos.mp = m /\ pos.ptr = end(m)) \/ pos.mp # m

\* erase counting the element off before it tests the iterator
EraseCountsFirst(m, pos) ==
  /\ Running /\ Constructed(heap, m) /\ ValidPosition(pos)
  /\ len' = [len EXCEPT ![m] = @ - 1]
  /\ IF eraseThrows(m, pos)
       THEN /\ last' = [op |-> "erase", kind |-> IF pos.mp = m THEN "end" ELSE "foreign"]
            /\ UNCHANGED heap
       ELSE /\ last' = [op |-> "erase", kind |-> RemoveKind(heap, len[m], pos.ptr)]
            /\ heap' = remove(heap, Sent(m), len[m], pos.ptr)
  /\ UNCHANGED <<undefined, derived, comparator, lhm, inserted>>

\* void erase(iterator pos); a throw is recorded as "end" (pos == end()) or
\* "foreign" (pos.map_ptr != this)
Erase(m, pos) ==
  /\ Running /\ Constructed(heap, m) /\ ValidPosition(pos)
  /\ IF eraseThrows(m, pos)
       THEN /\ last' = [op |-> "erase", kind |-> IF pos.mp = m THEN "end" ELSE "foreign"]
            /\ UNCHANGED <<heap, len>>
       ELSE /\ last' = [op |-> "erase", kind |-> RemoveKind(heap, len[m], pos.ptr)]
            /\ heap' = remove(heap, Sent(m), len[m], pos.ptr)
            /\ len' = [len EXCEPT ![m] = @ - 1]
  /\ UNCHANGED <<undefined, derived, comparator, lhm, inserted>>

\* void clear(); what it met is recorded as "empty" or "nodes"
Clear(m) ==
  /\ Running /\ Constructed(heap, m) /\ ~Wild(heap, m)
  /\ heap' = setLeft(clearNode(heap, Root(heap, m)), Sent(m), Null)
  /\ len' = [len EXCEPT ![m] = 0]
  /\ last' = [op |-> "clear", kind |-> IF Root(heap, m) = Null THEN "empty" ELSE "nodes"]
  /\ UNCHANGED <<undefined, derived, comparator, lhm, inserted>>

\* sentinel = new RBTNode()
newSentinel(h, m) == [BlankCell(h, Sent(m)) EXCEPT !.live = @ \cup {Sent(m)}]

\* map()
Construct(m) ==
  /\ Running /\ ~Constructed(heap, m)
  /\ heap' = newSentinel(heap, m)
  /\ len' = [len EXCEPT ![m] = 0]
  /\ last' = [op |-> "construct", kind |-> "none"]
  /\ derived' = FALSE
  /\ UNCHANGED <<undefined, comparator, lhm, inserted>>

\* if (sentinel->left) sentinel->left->parent = sentinel
adoptRoot(h, m) == IF Root(h, m) # Null THEN setParent(h, Root(h, m), Sent(m)) ELSE h

\* map(const map& other)
CopyConstruct(m, other) ==
  /\ Running /\ ~Constructed(heap, m) /\ Constructed(heap, other) /\ ~Wild(heap, other)
  /\ heap' = adoptRoot(copy(newSentinel(heap, m), Sent(m), "left", Root(heap, other)), m)
  /\ len' = [len EXCEPT ![m] = len[other]]
  /\ last' = [op |-> "copy", kind |-> "none"]
  /\ derived' = TRUE
  /\ UNCHANGED <<undefined, comparator, lhm, inserted>>

\* map& operator=(const map& other), other being another container
assign(h, m, other) ==
  adoptRoot(copy(clearNode(h, Root(h, m)), Sent(m), "left", Root(h, other)), m)

\* operator= without the test for self-assignment having any effect: a = a
\* releases a's nodes as clear() does
AssignSelfClears(m, other) ==
  /\ Running /\ Constructed(heap, m) /\ Constructed(heap, other)
  /\ IF m = other
       THEN /\ ~Wild(heap, m)
            /\ heap' = setLeft(clearNode(heap, Root(heap, m)), Sent(m), Null)
            /\ len' = [len EXCEPT ![m] = 0]
            /\ last' = [op |-> "assign", kind |-> "self"]
       ELSE /\ ~Wild(heap, m) /\ ~Wild(heap, other)
            /\ heap' = assign(heap, m, other)
            /\ len' = [len EXCEPT ![m] = len[other]]
            /\ last' = [op |-> "assign", kind |-> "other"]
  /\ derived' = (derived \/ m # other)
  /\ UNCHANGED <<undefined, comparator, lhm, inserted>>

Assign(m, other) ==
  /\ Running /\ Constructed(heap, m) /\ Constructed(heap, other)
  /\ IF m = other
       THEN /\ UNCHANGED <<heap, len>>
            /\ last' = [op |-> "assign", kind |-> "self"]
       ELSE /\ ~Wild(heap, m) /\ ~Wild(heap, other)
            /\ heap' = assign(heap, m, other)
            /\ len' = [len EXCEPT ![m] = len[other]]
            /\ last' = [op |-> "assign", kind |-> "other"]
  /\ derived' = (derived \/ m # other)
  /\ UNCHANGED <<undefined, comparator, lhm, inserted>>

\* ~map()
Destroy(m) ==
  /\ Running /\ Constructed(heap, m) /\ ~Wild(heap, m)
  /\ heap' = DeleteNode(clearNode(heap, Root(heap, m)), Sent(m))
  /\ len' = [len EXCEPT ![m] = 0]
  /\ last' = [op |-> "destroy", kind |-> "none"]
  /\ derived' = FALSE
  /\ UNCHANGED <<undefined, comparator, lhm, inserted>>

\* Any call that follows sentinel->left of a container whose sentinel->left
\* is wild (insert, operator[], find, at, count, begin, clear, operator=, the
\* copy constructor reading it, the destructor) reads or writes an object
\* that is not there: the behaviour is undefined and is followed no further.
UseAfterFree(m) ==
  /\ Running /\ Constructed(heap, m) /\ Wild(heap, m)
  /\ undefined' = TRUE
  /\ last' = [op |-> "undefined", kind |-> "none"]
  /\ UNCHANGED <<heap, len, derived, comparator, lhm, inserted>>

\* One container, driven through insert, operator[], erase and clear.
NextOne ==
  \/ \E k \in Keys : Insert(1, k, ValueFor(k))
  \/ \E k \in Keys : Subscript(1, k)
  \/ \E k \in Keys : SubscriptAssign(1, k, ValueFor(k))
  \/ \E pos \in Positions : Erase(1, pos)
  \/ Clear(1)

SpecOne == Init /\ [][NextOne]_vars

\* One container, driven through insert and erase alone, over more keys.
NextDeep ==
  \/ \E k \in DeepKeys : Insert(1, k, ValueFor(k))
  \/ \E pos \in Positions : Erase(1, pos)

SpecDeep == Init /\ [][NextDeep]_vars

\* One container, with stores through the references that operator[], at()
\* and operator*() return.
NextStore ==
  \/ \E k \in 1..MaxStoreKey : Insert(1, k, ValueFor(k))
  \/ \E k \in 1..MaxStoreKey : SubscriptAssign(1, k, ValueFor(k))
  \/ \E k \in 1..MaxStoreKey : \E v \in 0..MaxVal : AtAssign(1, k, v)
  \/ \E ptr \in Node : \E v \in 0..MaxVal : IteratorAssign(1, ptr, v)

SpecStore == Init /\ [][NextStore]_vars

\* The same, for map<Key, T, Compare> with the comparator under which two
\* neighbouring keys are equivalent.
InitCoarse ==
  /\ heap = [left |-> [n \in Node |-> Null], right |-> [n \in Node |-> Null],
             parent |-> [n \in Node |-> Null], color |-> [n \in Node |-> RED],
             key |-> [n \in Node |-> 0], val |-> [n \in Node |-> DefaultVal],
             live |-> {Sent(m) : m \in Maps}, aborted |-> FALSE]
  /\ len = [m \in Maps |-> 0]
  /\ last = [op |-> "construct", kind |-> "none"]
  /\ undefined = FALSE
  /\ derived = FALSE
  /\ comparator = "coarse"
  /\ lhm = LinkedFresh
  /\ inserted = [m \in Maps |-> <<>>]

SpecCoarse == InitCoarse /\ [][NextOne]_vars

\* One linked_hashmap, driven through insert and erase.
NextLinked ==
  \/ \E k \in LinkedKeys : \E v \in {DefaultVal, ValueFor(k)} : LinkedInsert(1, k, v)
  \/ \E pos \in LinkedPositions : LinkedErase(1, pos)

SpecLinked == Init /\ [][NextLinked]_vars

\* Two linked_hashmaps, cleared, copied and assigned as well, over three
\* keys: the table grows twice while they are inserted, and two of them can
\* share a bucket.
NextTwin ==
  \/ \E m \in Maps, k \in {1, 2, MaxLinkedKey} : LinkedInsert(m, k, ValueFor(k))
  \/ \E m \in Maps : \E pos \in LinkedPositions : LinkedErase(m, pos)
  \/ \E m \in Maps : LinkedClear(m)
  \/ \E m \in Maps, o \in Maps : LinkedCopy(m, o)
  \/ \E m \in Maps, o \in Maps : LinkedAssign(m, o)

SpecTwin == Init /\ [][NextTwin]_vars

\* Two containers, constructed, copied, assigned and destroyed as well.
Next ==
  \/ \E m \in Maps, k \in PairKeys : Insert(m, k, ValueFor(k))
  \/ \E m \in Maps, k \in PairKeys : Subscript(m, k)
  \/ \E m \in Maps, k \in PairKeys : SubscriptAssign(m, k, ValueFor(k))
  \/ \E m \in Maps : \E pos \in Positions : Erase(m, pos)
  \/ \E m \in Maps : Clear(m)
  \/ \E m \in Maps : Construct(m)
  \/ \E m, other \in Maps : CopyConstruct(m, other)
  \/ \E m, other \in Maps : Assign(m, other)
  \/ \E m \in Maps : Destroy(m)
  \/ \E m \in Maps : UseAfterFree(m)

Spec == Init /\ [][Next]_vars

----------------------------------------------------------------------------
\* What the properties below speak of

\* The nodes below n, left to right.
RECURSIVE InOrder(_, _)
InOrder(h, n) ==
  IF n = Null THEN <<>>
  ELSE InOrder(h, h.left[n]) \o <<n>> \o InOrder(h, h.right[n])

\* The number of BLACK nodes on every path from n down to a missing child,
\* or -1 when two such paths differ.
RECURSIVE BlackHeight(_, _)
BlackHeight(h, n) ==
  IF n = Null THEN 0
  ELSE IF BlackHeight(h, h.left[n]) < 0 \/ BlackHeight(h, h.right[n]) < 0 THEN -1
  ELSE IF BlackHeight(h, h.left[n]) # BlackHeight(h, h.right[n]) THEN -1
  ELSE BlackHeight(h, h.left[n]) + (IF isBlack(h, n) THEN 1 ELSE 0)

Children(h, n) == {h.left[n], h.right[n]} \ {Null}

\* The colouring invariants of the tree under container m's sentinel; a cell
\* that holds no object has no colour.
RedBlack(h, m) ==
  /\ Subtree(h, Root(h, m)) \subseteq h.live
  /\ Root(h, m) = Null \/ isBlack(h, Root(h, m))
  /\ \A n \in Subtree(h, Root(h, m)) :
       isRed(h, n) => \A c \in Children(h, n) : isBlack(h, c)
  /\ BlackHeight(h, Root(h, m)) >= 0

\* The forward traversal for (it = begin(); it != end(); ++it): the nodes
\* visited, and whether it got to end() through nodes of the container.
RECURSIVE Walk(_, _, _, _)
Walk(h, m, ptr, fuel) ==
  IF ptr = end(m) THEN [nodes |-> <<>>, ok |-> TRUE]
  ELSE IF fuel = 0 \/ ptr \notin h.live \/ h.parent[ptr] = Null
    THEN [nodes |-> <<>>, ok |-> FALSE]
  ELSE LET rest == Walk(h, m, increment(h, m, ptr).ptr, fuel - 1)
       IN  [nodes |-> <<ptr>> \o rest.nodes, ok |-> rest.ok]

Traversal(h, m) == Walk(h, m, begin(h, m), Cardinality(Pool))

\* The key/value pairs of a sequence of nodes.
PairsOf(h, nodes) == [i \in 1..Len(nodes) |-> <<h.key[nodes[i]], h.val[nodes[i]]>>]

KeysOf(h, nodes) == [i \in 1..Len(nodes) |-> h.key[nodes[i]]]

Increasing(keys) == \A i \in 1..(Len(keys) - 1) : Compare(keys[i], keys[i + 1])

----------------------------------------------------------------------------
\* C1: after every public mutation (insert, operator[], erase, clear, copy
\* construction, assignment) the tree under each sentinel is a red-black
\* tree: the root is BLACK or the tree is empty, no RED node has a RED child
\* and every path from the root to a missing child holds the same number of
\* BLACK nodes.
C1_RedBlackAfterEveryMutation ==
  \A m \in Maps : Constructed(heap, m) => RedBlack(heap, m)

C2_Witness ==
  /\ last.op = "erase" /\ last.kind = "two"
  /\ len[1] >= 4

\* C2: after any sequence of insert, operator[] and erase the in-order key
\* sequence is strictly increasing under the comparator.
C2_InOrderStrictlyIncreasing ==
  Increasing(KeysOf(heap, InOrder(heap, Root(heap, 1))))

\* C3: in every state reachable by insert, operator[], erase, clear, copy
\* construction and assignment, size() is the number of elements a forward
\* traversal from begin() to end() visits.
C3_SizeIsTraversalLength ==
  \A m \in Maps :
    Constructed(heap, m) =>
      Traversal(heap, m).ok /\ len[m] = Len(Traversal(heap, m).nodes)

\* The key/value pairs container m holds.
PairSet(h, m) == {<<h.key[n], h.val[n]>> : n \in Subtree(h, Root(h, m))}

\* What a caller sees of container m: what a forward traversal yields.
Contents(h, m) == PairsOf(h, Traversal(h, m).nodes)

\* Container m, as the cells it is made of.
Cells(h, m) ==
  [n \in Subtree(h, Root(h, m)) \cup {Sent(m)} |->
     [left |-> h.left[n], right |-> h.right[n], parent |-> h.parent[n],
      color |-> h.color[n], key |-> h.key[n], val |-> h.val[n],
      live |-> n \in h.live]]

\* C4: after a = b, b another container (an empty b assigned to a non-empty
\* a included), the nodes a owned are released, a forward traversal of a
\* yields the key/value sequence of b, the sizes are equal, and every node
\* reachable from a's sentinel is a live node that the clone made.
C4_AssignReleasesAndClones ==
  [][\A m, other \in Maps :
       (m # other /\ Assign(m, other)) =>
         /\ Subtree(heap, Root(heap, m)) \cap clearNode(heap, Root(heap, m)).live = {}
         /\ Traversal(heap', m).ok
         /\ Contents(heap', m) = Contents(heap, other)
         /\ Contents(heap', other) = Contents(heap, other)
         /\ len'[m] = len'[other]
         /\ Subtree(heap', Root(heap', m))
              \subseteq heap'.live \ clearNode(heap, Root(heap, m)).live]_vars

\* The node of container m whose key is equivalent to k, or Null.
Holder(h, m, k) ==
  IF \E n \in Subtree(h, Root(h, m)) : equal_key(h.key[n], k)
    THEN CHOOSE n \in Subtree(h, Root(h, m)) : equal_key(h.key[n], k)
    ELSE Null

C5_Witness ==
  /\ last.op = "erase" /\ last.kind = "tworoot"
  /\ len[1] >= 4

\* C5: erase(pos), pos an iterator to an element of this container, removes
\* that element and no other, whether its node was a leaf, had one child, had
\* two children or was the root: size() goes down by one, every other pair
\* stays, in order, and find of the erased key is end() and count of it 0.
C5_EraseRemovesExactlyThatElement ==
  [][last'.op = "erase" =>
       \A pos \in Positions :
         (~eraseThrows(1, pos) /\ Erase(1, pos)) =>
           /\ len'[1] = len[1] - 1
           /\ PairSet(heap', 1)
                = PairSet(heap, 1) \ {<<heap.key[pos.ptr], heap.val[pos.ptr]>>}
           /\ Cardinality(Subtree(heap', Root(heap', 1))) = len'[1]
           /\ Contents(heap', 1) =
                SelectSeq(Contents(heap, 1), LAMBDA kv : kv[1] # heap.key[pos.ptr])
           /\ find(heap', 1, heap.key[pos.ptr]) = end(1)
           /\ count(heap', 1, heap.key[pos.ptr]) = 0
           /\ ~heap'.aborted]_vars

C6_Witness ==
  /\ last.op = "insert" /\ last.kind = "new"
  /\ len[1] = MaxKey

\* C6: insert of a key equivalent to no stored key returns inserted = true
\* and an iterator to an element holding the given key and value; the stored
\* pairs grow by that pair and nothing else, and size() goes up by one.
C6_InsertNewKey ==
  [][\A k \in Keys :
       (last'.op = "insert" /\ Holder(heap, 1, k) = Null /\ Insert(1, k, ValueFor(k))) =>
         /\ insert(heap, 1, k, ValueFor(k)).ok
         /\ insert(heap, 1, k, ValueFor(k)).node \in Subtree(heap', Root(heap', 1))
         /\ heap'.key[insert(heap, 1, k, ValueFor(k)).node] = k
         /\ heap'.val[insert(heap, 1, k, ValueFor(k)).node] = ValueFor(k)
         /\ PairSet(heap', 1) = PairSet(heap, 1) \cup {<<k, ValueFor(k)>>}
         /\ Cardinality(Subtree(heap', Root(heap', 1))) = len'[1]
         /\ len'[1] = len[1] + 1]_vars

\* A duplicate insert that offered another value than the stored one.
C7_Witness ==
  /\ last.op = "insert" /\ last.kind = "dup"
  /\ len[1] = 1
  /\ heap.val[Root(heap, 1)] # ValueFor(heap.key[Root(heap, 1)])

\* C7: insert of a key equivalent to a stored key returns inserted = false
\* and an iterator to the element already there, and changes nothing: not the
\* stored value, not size(), no link and no colour.
C7_InsertDuplicateKey ==
  [][\A k \in Keys :
       (last'.op = "insert" /\ Holder(heap, 1, k) # Null /\ Insert(1, k, ValueFor(k))) =>
         /\ ~insert(heap, 1, k, ValueFor(k)).ok
         /\ insert(heap, 1, k, ValueFor(k)).node = Holder(heap, 1, k)
         /\ heap' = heap
         /\ len' = len]_vars

\* A call that changes container m.
Mutation(m) ==
  \/ \E k \in PairKeys : Insert(m, k, ValueFor(k))
  \/ \E k \in PairKeys : Subscript(m, k)
  \/ \E k \in PairKeys : SubscriptAssign(m, k, ValueFor(k))
  \/ \E pos \in Positions : Erase(m, pos) /\ ~eraseThrows(m, pos)
  \/ Clear(m)

\* C8: a container made from another by copy construction or by assignment
\* is independent of it: the two share no node, and a call that changes one
\* leaves the other as it was, in its contents, its size and its cells.
C8_CopiesAreIndependent ==
  [][/\ derived' =>
          Subtree(heap', Root(heap', 1)) \cap Subtree(heap', Root(heap', 2)) = {}
     /\ derived =>
          \A m, other \in Maps :
            (m # other /\ Mutation(m)) =>
              /\ Contents(heap', other) = Contents(heap, other)
              /\ len'[other] = len[other]
              /\ Cells(heap', other) = Cells(heap, other)]_vars

\* The node of S with the least key above that of p, or e when there is none.
NextLarger(h, S, p, e) ==
  IF \E n \in S : Compare(h.key[p], h.key[n])
    THEN CHOOSE n \in S :
           /\ Compare(h.key[p], h.key[n])
           /\ \A x \in S : Compare(h.key[p], h.key[x]) => ~Compare(h.key[x], h.key[n])
    ELSE e

\* A tree in which operator++ has to climb over two right children to get to
\* the next element.
C9_Witness ==
  /\ len[1] >= 5
  /\ \E p \in Subtree(heap, Root(heap, 1)) :
       /\ heap.right[p] = Null
       /\ direction(heap, p) = "RIGHT"
       /\ direction(heap, heap.parent[p]) = "RIGHT"
       /\ p # rightmost(heap, Root(heap, 1))

\* C9: begin() is the element with the smallest key, and is end() exactly
\* when the container is empty; ++ takes an iterator to the element with the
\* next larger key and the one at the largest key to end(); so the traversal
\* from begin() to end() visits every element once, in increasing key order.
C9_ForwardTraversalInKeyOrder ==
  LET S == Subtree(heap, Root(heap, 1))
      first == begin(heap, 1)
      visited == Traversal(heap, 1)
  IN /\ (first = end(1)) <=> (len[1] = 0)
     /\ \A n \in S :
          /\ first \in S
          /\ ~Compare(heap.key[n], heap.key[first])
          /\ increment(heap, 1, n) = [ptr |-> NextLarger(heap, S, n, end(1)), exc |-> "none"]
     /\ visited.ok
     /\ Len(visited.nodes) = Cardinality(S)
     /\ {visited.nodes[i] : i \in 1..Len(visited.nodes)} = S
     /\ Increasing(KeysOf(heap, visited.nodes))

\* A tree in which operator-- has to climb over two left children to get to
\* the element before.
C10_Witness ==
  /\ len[1] >= 5
  /\ \E p \in Subtree(heap, Root(heap, 1)) :
       /\ heap.left[p] = Null
       /\ direction(heap, p) = "LEFT"
       /\ direction(heap, heap.parent[p]) = "LEFT"
       /\ p # begin(heap, 1)

\* C10: ++ and -- undo each other: --(++p) is p for every p other than
\* end(), and ++(--p) is p for every p other than begin(), end() of a
\* non-empty container included.
C10_IncrementDecrementInverse ==
  /\ \A p \in Subtree(heap, Root(heap, 1)) :
       /\ increment(heap, 1, p).exc = "none"
       /\ decrement(heap, 1, increment(heap, 1, p).ptr) = [ptr |-> p, exc |-> "none"]
  /\ \A p \in (Subtree(heap, Root(heap, 1)) \cup {end(1)}) \ {begin(heap, 1)} :
       /\ decrement(heap, 1, p).exc = "none"
       /\ increment(heap, 1, decrement(heap, 1, p).ptr) = [ptr |-> p, exc |-> "none"]

\* A container of several elements, whose begin() is not its end().
C11_Witness ==
  /\ len[1] >= 3
  /\ begin(heap, 1) # end(1)
  /\ decrementPost(heap, 1, begin(heap, 1)).exc = "invalid_iterator"
  /\ increment(heap, 1, end(1)).exc = "invalid_iterator"

\* C11: ++ on an iterator equal to end() and -- on one equal to begin(),
\* prefix or postfix, iterator or const_iterator, on an empty container
\* (begin() = end()) as on any other, throw invalid_iterator and leave the
\* iterator where it was: it neither wraps round nor moves.
C11_StepOffTheEndsThrows ==
  /\ increment(heap, 1, end(1)) = [ptr |-> end(1), exc |-> "invalid_iterator"]
  /\ constIncrement(heap, 1, end(1)) = [ptr |-> end(1), exc |-> "invalid_iterator"]
  /\ incrementPost(heap, 1, end(1)).ptr = end(1)
  /\ incrementPost(heap, 1, end(1)).exc = "invalid_iterator"
  /\ constIncrementPost(heap, 1, end(1)).ptr = end(1)
  /\ constIncrementPost(heap, 1, end(1)).exc = "invalid_iterator"
  /\ decrement(heap, 1, begin(heap, 1)) = [ptr |-> begin(heap, 1), exc |-> "invalid_iterator"]
  /\ constDecrement(heap, 1, begin(heap, 1))
       = [ptr |-> begin(heap, 1), exc |-> "invalid_iterator"]
  /\ decrementPost(heap, 1, begin(heap, 1)).ptr = begin(heap, 1)
  /\ decrementPost(heap, 1, begin(heap, 1)).exc = "invalid_iterator"
  /\ constDecrementPost(heap, 1, begin(heap, 1)).ptr = begin(heap, 1)
  /\ constDecrementPost(heap, 1, begin(heap, 1)).exc = "invalid_iterator"

\* An erase that threw for an iterator of another container, both containers
\* holding elements.
C12_Witness ==
  /\ last = [op |-> "erase", kind |-> "foreign"]
  /\ \A m \in Maps : Constructed(heap, m) /\ len[m] = MaxPairKey

\* C12: erase(pos) throws invalid_iterator when pos is end() of this
\* container or belongs to another container (that container's end() and a
\* default-constructed iterator included), and then the contents, size, links
\* and colours of the receiving container are as before.
C12_EraseRejectsEndAndForeign ==
  [][last'.op = "erase" =>
       \A m \in Maps : \A pos \in Positions :
         ((pos = [mp |-> m, ptr |-> end(m)] \/ pos.mp # m) /\ Erase(m, pos)) =>
           /\ last'.kind \in {"end", "foreign"}
           /\ heap' = heap
           /\ len' = len]_vars

\* What a bounds-checked lookup of key k in container 1 has to yield.
Looked(k) ==
  IF Holder(heap, 1, k) # Null
    THEN [h |-> heap, val |-> heap.val[Holder(heap, 1, k)], exc |-> "none"]
    ELSE [h |-> heap, exc |-> "index_out_of_bound"]

\* Some key is absent, and some key is stored with a value that is not the
\* default one.
C13_Witness ==
  /\ len[1] >= 2
  /\ \E k \in Keys : at(heap, 1, k).exc = "index_out_of_bound"
  /\ \E k \in Keys : at(heap, 1, k).exc = "none" /\ at(heap, 1, k).val # DefaultVal

\* C13: at(key) and the read-only operator[](key) return the value stored
\* under an equivalent key when there is one and throw index_out_of_bound
\* when there is none; nothing is inserted in that case and the container is
\* as it was.
C13_BoundsCheckedLookup ==
  \A k \in Keys :
    /\ at(heap, 1, k) = Looked(k)
    /\ atConst(heap, 1, k) = Looked(k)
    /\ subscriptConst(heap, 1, k) = Looked(k)

\* operator[] has just inserted an absent key into a container that holds a
\* value other than the default one.
C14_Witness ==
  /\ last = [op |-> "subscript", kind |-> "new"]
  /\ len[1] >= 3
  /\ \E n \in Elems(heap, 1) : heap.val[n] # DefaultVal

\* C14: the mutable operator[] on an absent key inserts exactly one element,
\* holding the default value, and size() goes up by one; a second operator[]
\* with the same key returns that same element and leaves size() as it is.
\* On a present key it returns the stored value and overwrites nothing.
C14_SubscriptInsertsDefaultOnce ==
  [][\A k \in Keys :
       (last'.op = "subscript" /\ Subscript(1, k)) =>
         IF Holder(heap, 1, k) = Null
           THEN /\ insert(heap, 1, k, DefaultVal).ok
                /\ Holder(heap', 1, k) = insert(heap, 1, k, DefaultVal).node
                /\ heap'.val[Holder(heap', 1, k)] = DefaultVal
                /\ PairSet(heap', 1) = PairSet(heap, 1) \cup {<<k, DefaultVal>>}
                /\ Cardinality(Elems(heap', 1)) = Cardinality(Elems(heap, 1)) + 1
                /\ len'[1] = len[1] + 1
                /\ ~insert(heap', 1, k, DefaultVal).ok
                /\ insert(heap', 1, k, DefaultVal).node = Holder(heap', 1, k)
                /\ insert(heap', 1, k, DefaultVal).h = heap'
           ELSE /\ ~insert(heap, 1, k, DefaultVal).ok
                /\ insert(heap, 1, k, DefaultVal).node = Holder(heap, 1, k)
                /\ heap' = heap
                /\ len' = len]_vars

C16_DereferenceEndThrows ==
  /\ dereference(heap, 1, end(1)).exc = "invalid_iterator"
  /\ constDereference(heap, 1, end(1)).exc = "invalid_iterator"
  /\ arrow(heap, 1, end(1)).exc = "invalid_iterator"
  /\ constArrow(heap, 1, end(1)).exc = "invalid_iterator"

\* The links of container m: every child slot in use holds a live node whose
\* parent is the node owning the slot, the sentinel has neither a parent nor
\* a right child, and isRoot() holds of the sentinel's child alone.
LinksConsistent(h, m) ==
  /\ h.parent[Sent(m)] = Null
  /\ h.right[Sent(m)] = Null
  /\ \A n \in {Sent(m)} \cup Subtree(h, Root(h, m)) :
       \A c \in {h.left[n], h.right[n]} \ {Null} : c \in h.live /\ h.parent[c] = n
  /\ \A n \in Subtree(h, Root(h, m)) : isRoot(h, n) <=> n = Root(h, m)

\* C17: after every public mutation the links are mutually consistent: every
\* left/right slot in use, the sentinel's left slot included, points to a
\* node whose parent link points back, the root's parent is the sentinel, and
\* the sentinel's parent and right slot are empty, so that exactly the
\* sentinel's child is recognised as root.
C17_LinksConsistent ==
  \A m \in Maps : Constructed(heap, m) => LinksConsistent(heap, m)

\* The number of nodes on the longest path from n down to a leaf.
RECURSIVE Height(_, _)
Height(h, n) ==
  IF n = Null THEN 0
  ELSE LET l == Height(h, h.left[n])
           r == Height(h, h.right[n])
       IN  1 + (IF l >= r THEN l ELSE r)

RECURSIVE Pow2(_)
Pow2(e) == IF e = 0 THEN 1 ELSE 2 * Pow2(e - 1)

\* C18: in every reachable state the height h of the tree under a sentinel
\* and the number n of stored elements, size(), satisfy h <= 2 * log2(n + 1),
\* that is 2^h <= (n + 1)^2.
C18_HeightBound ==
  \A m \in Maps :
    Constructed(heap, m) => Pow2(Height(heap, Root(heap, m))) <= (len[m] + 1) * (len[m] + 1)

\* The heap and the sizes right after construction.
FreshHeap ==
  [left |-> [n \in Node |-> Null], right |-> [n \in Node |-> Null],
   parent |-> [n \in Node |-> Null], color |-> [n \in Node |-> RED],
   key |-> [n \in Node |-> 0], val |-> [n \in Node |-> DefaultVal],
   live |-> {Sent(m) : m \in Maps}, aborted |-> FALSE]

FreshLen == [m \in Maps |-> 0]

\* What holds of container 1 whatever was done to it.
Sound ==
  /\ RedBlack(heap, 1)
  /\ LinksConsistent(heap, 1)
  /\ Increasing(KeysOf(heap, InOrder(heap, Root(heap, 1))))
  /\ Cardinality(Elems(heap, 1)) = len[1]
  /\ ~heap.aborted

\* clear() has just emptied a container that held nodes: the heap is that of
\* a fresh container, and insert can be called.
C19_Witness ==
  /\ last = [op |-> "clear", kind |-> "nodes"]
  /\ heap = FreshHeap
  /\ ENABLED Insert(1, MaxKey, ValueFor(MaxKey))

\* C19: clear() releases every node and leaves size() == 0, begin() == end()
\* and the sentinel's child slot empty.  The container stays usable: the heap
\* and the size it leaves are those of a freshly constructed container, so
\* every later sequence of insert and erase goes as it does from there, and
\* the invariants hold in every state.
C19_ClearEmptiesAndStaysUsable ==
  /\ [][(last'.op = "clear" /\ Clear(1)) =>
          /\ heap'.live = heap.live \ Elems(heap, 1)
          /\ len'[1] = 0
          /\ Root(heap', 1) = Null
          /\ begin(heap', 1) = end(1)
          /\ heap' = FreshHeap
          /\ len' = FreshLen]_vars
  /\ []Sound

\* The trees under a and b agree position by position: the same slots are in
\* use, and the nodes in them have the same colour, key and value.
RECURSIVE SameTree(_, _, _)
SameTree(h, a, b) ==
  IF a = Null \/ b = Null THEN a = b
  ELSE /\ h.color[a] = h.color[b]
       /\ h.key[a] = h.key[b]
       /\ h.val[a] = h.val[b]
       /\ SameTree(h, h.left[a], h.left[b])
       /\ SameTree(h, h.right[a], h.right[b])

\* What a copy construction of m from other has to leave.
Cloned(m, other) ==
  /\ ~undefined'
  /\ SameTree(heap', Root(heap', m), Root(heap', other))
  /\ len'[m] = len[other]
  /\ Cardinality(Subtree(heap', Root(heap', m))) = len[other]
  /\ Subtree(heap', Root(heap', m)) \cap Subtree(heap', Root(heap', other)) = {}
  /\ LinksConsistent(heap', m)
  /\ Cells(heap', other) = Cells(heap, other)

\* C20: copy construction from any reachable source produces a tree with the
\* same shape, the same colour, key and value at every position and the same
\* size as the source, and every parent link of the clone, the root's link to
\* the new sentinel included, is consistent.  The call is made where m does
\* not exist and other does; it is the step CopyConstruct, or the undefined
\* step when the source's root pointer dangles.
C20_CopyConstructionClones ==
  [][last'.op \in {"copy", "undefined"} =>
       \A m, other \in Maps :
         (/\ m # other
          /\ ~Constructed(heap, m)
          /\ CopyConstruct(m, other) \/ UseAfterFree(other)) => Cloned(m, other)]_vars

\* Neither key compares less than the other.
Equivalent(a, b) == ~Compare(a, b) /\ ~Compare(b, a)

\* The elements of container 1 whose key is equivalent to k.
StoredAs(h, k) == {n \in Elems(h, 1) : Equivalent(h.key[n], k)}

\* A duplicate insert has been made, and a key value that is not stored finds
\* the element stored under the equivalent value.
C21_Witness ==
  /\ comparator = "coarse"
  /\ last = [op |-> "insert", kind |-> "dup"]
  /\ len[1] >= 2
  /\ \E k \in Keys : /\ find(heap, 1, k) # end(1)
                     /\ heap.key[find(heap, 1, k)] # k
                     /\ at(heap, 1, k).exc = "none"

\* C21: key equality is decided by the comparator alone: two keys are the
\* same key exactly when neither compares less than the other.  Under a
\* comparator that makes distinct key values equivalent, insert of a value
\* equivalent to a stored one is a duplicate (inserted = false, nothing
\* changed, size unchanged), at most one element is stored per class, and
\* find, count and at with either value reach that element.
C21_EqualityFromComparator ==
  /\ [][\A k \in Keys :
          (last'.op = "insert" /\ StoredAs(heap, k) # {} /\ Insert(1, k, ValueFor(k))) =>
            /\ ~insert(heap, 1, k, ValueFor(k)).ok
            /\ insert(heap, 1, k, ValueFor(k)).node \in StoredAs(heap, k)
            /\ heap' = heap
            /\ len' = len]_vars
  /\ [](\A k \in Keys :
          /\ equal_key(k, k)
          /\ \A j \in Keys : equal_key(j, k) <=> Equivalent(j, k)
          /\ Cardinality(StoredAs(heap, k)) <= 1
          /\ IF StoredAs(heap, k) # {}
               THEN /\ find(heap, 1, k) \in StoredAs(heap, k)
                    /\ count(heap, 1, k) = 1
                    /\ at(heap, 1, k) =
                         [h |-> heap, val |-> heap.val[find(heap, 1, k)], exc |-> "none"]
               ELSE /\ find(heap, 1, k) = end(1)
                    /\ count(heap, 1, k) = 0
                    /\ at(heap, 1, k).exc = "index_out_of_bound")

\* A container holding MaxPairKey elements has just been assigned to itself.
C22_Witness ==
  /\ last = [op |-> "assign", kind |-> "self"]
  /\ \E m \in Maps : Constructed(heap, m) /\ len[m] = MaxPairKey

\* C22: self-assignment a = a is a no-op: nodes, links, colours, contents
\* and size are unchanged and no node is released.
C22_SelfAssignmentIsNoOp ==
  [][last'.op = "assign" =>
       \A m \in Maps :
         Assign(m, m) =>
           /\ heap' = heap
           /\ len' = len
           /\ heap'.live = heap.live
           /\ Cells(heap', m) = Cells(heap, m)]_vars

LinkedKeysOf(l, nodes) == [i \in 1..Len(nodes) |-> l.key[nodes[i]]]

\* A duplicate insert has just been refused in a linked_hashmap of at least
\* 3 elements that are not in key order.
C23_Witness ==
  /\ last = [op |-> "linked_insert", kind |-> "dup"]
  /\ Len(inserted[1]) >= 3
  /\ inserted[1][1] > inserted[1][2]
  /\ lhm.capp[1] >= 2

\* C23: linked_hashmap iterates its elements in the order of their
\* successful insertions: after any sequence of insert and erase a forward
\* traversal yields the stored keys in the order of the last successful
\* insertion of each, and an insert of a key that is present changes neither
\* the iteration order, nor the stored value, nor the size.
C23_IterationInInsertionOrder ==
  /\ [](LinkedKeysOf(lhm, LinkedTraversal(lhm, 1)) = inserted[1])
  /\ [][last'.op = "linked_insert" =>
          \A k \in LinkedKeys : \A v \in {DefaultVal, ValueFor(k)} :
            ((\E i \in 1..Len(inserted[1]) : inserted[1][i] = k) /\ LinkedInsert(1, k, v)) =>
              /\ ~linkedInsert(lhm, 1, k, v).ok
              /\ lhm.key[linkedInsert(lhm, 1, k, v).node] = k
              /\ LinkedTraversal(lhm', 1) = LinkedTraversal(lhm, 1)
              /\ lhm'.val = lhm.val
              /\ lhm'.len = lhm.len
              /\ lhm' = lhm]_vars

\* Where the insert-fixup started at node comes to a halt after its
\* recolouring steps (RED parent, RED uncle, go on at the grandparent): the
\* heap there and the node, Null when the fixup ends without a rotation.
RECURSIVE Landing(_, _)
Landing(h, node) ==
  IF isRoot(h, node) \/ isBlack(h, h.parent[node]) THEN [h |-> h, node |-> Null]
  ELSE IF hasUncle(h, node) /\ isRed(h, uncle(h, node))
    THEN Landing(insertRecolor(h, node), grandParent(h, node))
  ELSE [h |-> h, node |-> node]

\* The fixup of an insert of the absent key k into container 1, at its halt.
LandingOf(k) ==
  Landing(insertNode(heap, k, ValueFor(k), Sent(1), "left").h,
          insertNode(heap, k, ValueFor(k), Sent(1), "left").node)

\* The halt is the case of a RED parent, a BLACK or absent uncle and a node
\* whose direction differs from its parent's.
InnerCase(l) ==
  /\ l.node # Null
  /\ direction(l.h, l.node) # direction(l.h, l.h.parent[l.node])

\* The parent rotated against the node's direction, then the grandparent
\* rotated the other way, the node BLACK and the former grandparent RED.
RotatedAway(h, n, p, g) ==
  IF direction(h, n) = "LEFT"
    THEN paint(paint(rotateLeft(rotateRight(h, Sent(1), p), Sent(1), g), n, BLACK), g, RED)
    ELSE paint(paint(rotateRight(rotateLeft(h, Sent(1), p), Sent(1), g), n, BLACK), g, RED)

\* The parent rotated in the node's direction, then the grandparent rotated
\* the other way, the former parent BLACK and the former grandparent RED.
RotatedAlong(h, n, p, g) ==
  IF direction(h, n) = "LEFT"
    THEN paint(paint(rotateRight(rotateLeft(h, Sent(1), p), Sent(1), g), p, BLACK), g, RED)
    ELSE paint(paint(rotateLeft(rotateRight(h, Sent(1), p), Sent(1), g), p, BLACK), g, RED)

----------------------------------------------------------------------------
\* The heap remove(node) hands to the leaf case: after the swap with the
\* successor when the node has two children.
Swapped(h, size, node) ==
  IF size > 1 /\ h.left[node] # Null /\ h.right[node] # Null
    THEN removeSwap(h, node, h.parent[node], successorWalk(h, h.right[node], node))
    ELSE h

\* Whether remove(node) calls maintainAfterRemove(node): more than one
\* element, and the node a BLACK leaf once swapped.
FixupEntered(h, size, node) ==
  /\ size > 1
  /\ isLeaf(Swapped(h, size, node), node)
  /\ ~isRoot(Swapped(h, size, node), node)
  /\ isBlack(Swapped(h, size, node), node)

closeNephewOf(h, node) ==
  IF direction(h, node) = "LEFT" THEN h.left[sibling(h, node)]
                                 ELSE h.right[sibling(h, node)]

distantNephewOf(h, node) ==
  IF direction(h, node) = "LEFT" THEN h.right[sibling(h, node)]
                                 ELSE h.left[sibling(h, node)]

\* The point of maintainAfterRemove(node) at which a BLACK sibling has a RED
\* nephew: the heap and the node there, Case 1 done and Case 3 followed to
\* the parent; node is Null when the fixup ends without reaching it.
RECURSIVE NephewsRead(_, _, _)
NephewsSeen(h, s, node) ==
  IF h.aborted \/ sibling(h, node) = Null \/ ~isBlack(h, sibling(h, node))
    THEN [h |-> h, node |-> Null]
  ELSE IF /\ (closeNephewOf(h, node) = Null \/ isBlack(h, closeNephewOf(h, node)))
          /\ (distantNephewOf(h, node) = Null \/ isBlack(h, distantNephewOf(h, node)))
    THEN IF isRed(h, h.parent[node]) THEN [h |-> h, node |-> Null]
         ELSE NephewsRead(paint(h, sibling(h, node), RED), s, h.parent[node])
  ELSE [h |-> h, node |-> node]

NephewsRead(h, s, node) ==
  IF isRoot(h, node) \/ ~(isBlack(h, node) /\ hasSibling(h, node))
    THEN [h |-> h, node |-> Null]
  ELSE IF isRed(h, sibling(h, node))
    THEN NephewsSeen(removeCase1(h, s, node, direction(h, node), sibling(h, node),
                                 h.parent[node]), s, node)
  ELSE NephewsSeen(h, s, node)

\* The fixup of the erase of element n of container 1, at that point.
NephewsOf(n) ==
  IF FixupEntered(heap, len[1], n)
    THEN NephewsRead(Swapped(heap, len[1], n), Sent(1), n)
    ELSE [h |-> heap, node |-> Null]

BothNephewsRed(d) ==
  /\ d.node # Null
  /\ closeNephewOf(d.h, d.node) # Null /\ isRed(d.h, closeNephewOf(d.h, d.node))
  /\ distantNephewOf(d.h, d.node) # Null /\ isRed(d.h, distantNephewOf(d.h, d.node))

\* Case 4 as the fixup applies it at that point.
CloseNephewStep(d) ==
  removeCase4(d.h, Sent(1), direction(d.h, d.node), sibling(d.h, d.node),
              closeNephewOf(d.h, d.node))

----------------------------------------------------------------------------
\* The elements of container 1 that remove(node) swaps with their successor.
TwoChildren == {n \in Elems(heap, 1) : heap.left[n] # Null /\ heap.right[n] # Null}

\* The in-order successor remove(node) finds for n, and the heap swapNode
\* leaves, before the two calls of maintainRelationship.
SuccessorOf(n) == successorWalk(heap, heap.right[n], n).successor

SwapOf(n) == swapNode(heap, n, SuccessorOf(n))

\* A sequence of nodes with a and b exchanged.
Exchanged(seq, a, b) ==
  [i \in 1..Len(seq) |-> IF seq[i] = a THEN b ELSE IF seq[i] = b THEN a ELSE seq[i]]

\* swapNode(n, t) has put t where n was and n where t was.
PositionsExchanged(h, g, n, t) ==
  /\ g.left[t] = h.left[n]
  /\ g.right[t] = (IF h.right[n] = t THEN n ELSE h.right[n])
  /\ g.parent[t] = h.parent[n]
  /\ g.color[t] = h.color[n]
  /\ CASE direction(h, n) = "ROOT" -> g.left[h.parent[n]] = t
       [] direction(h, n) = "LEFT" -> g.left[h.parent[n]] = t
       [] direction(h, n) = "RIGHT" -> g.right[h.parent[n]] = t
  /\ g.left[n] = h.left[t]
  /\ g.right[n] = h.right[t]
  /\ g.parent[n] = (IF h.parent[t] = n THEN t ELSE h.parent[t])
  /\ g.color[n] = h.color[t]
  /\ IF h.parent[t] = n THEN g.right[t] = n ELSE g.left[h.parent[t]] = n
  /\ \A x \in Node \ {n, t} : g.color[x] = h.color[x]
  /\ g.key = h.key /\ g.val = h.val /\ g.live = h.live

----------------------------------------------------------------------------
\* The elements of container 1 whose erase enters the fixup with a RED
\* sibling.
RedSiblingErased ==
  {n \in Elems(heap, 1) :
     /\ FixupEntered(heap, len[1], n)
     /\ isRed(Swapped(heap, len[1], n), sibling(Swapped(heap, len[1], n), n))}

\* An insert has just added an element without abort, and the tree has an
\* element whose erase starts with the RED-sibling step and an element whose
\* erase ends in the nephew cases with their rotations, both going through.
C27_Witness ==
  /\ last = [op |-> "insert", kind |-> "new"]
  /\ \E n \in RedSiblingErased : ~remove(heap, Sent(1), len[1], n).aborted
  /\ \E n \in Elems(heap, 1) :
       /\ NephewsOf(n).node # Null
       /\ ~remove(heap, Sent(1), len[1], n).aborted
  /\ ~heap.aborted

\* C27: on every tree reachable by the public operations, no insert and no
\* erase fails an assertion: not those of maintainAfterRemove (node BLACK
\* with a sibling; RED sibling with a BLACK parent and two BLACK children;
\* sibling BLACK afterwards; distant nephew RED in the last case), not that a
\* leaf removed is not the root, not those of maintainAfterInsert, and not
\* the non-empty right/left child required by rotateLeft/rotateRight.
C27_NoAssertionFails ==
  /\ ~heap.aborted
  /\ \A k \in Keys :
       /\ ~insert(heap, 1, k, ValueFor(k)).h.aborted
       /\ ~insert(heap, 1, k, DefaultVal).h.aborted
  /\ \A n \in Elems(heap, 1) : ~remove(heap, Sent(1), len[1], n).aborted

----------------------------------------------------------------------------
\* The heap maintainAfterRemove returns in the erase of element n.
FixedUp(n) == maintainAfterRemove(Swapped(heap, len[1], n), Sent(1), n)

\* Heap g is heap f with one child slot emptied: the dir slot of node p.
SlotCleared(f, g, p, dir) ==
  g = IF dir = "LEFT" THEN [f EXCEPT !.left[p] = Null] ELSE [f EXCEPT !.right[p] = Null]

\* A BLACK leaf has been erased, and the tree has a BLACK leaf that is a
\* RIGHT child and whose erase rotates its parent in the nephew cases.
C28_Witness ==
  /\ last = [op |-> "erase", kind |-> "leaf"]
  /\ \E n \in Elems(heap, 1) :
       /\ FixupEntered(heap, len[1], n)
       /\ NephewsOf(n).node = n
       /\ direction(heap, n) = "RIGHT"
       /\ FixedUp(n).parent[heap.parent[n]] # heap.parent[heap.parent[n]]
       /\ FixedUp(n).right[heap.parent[n]] = n

\* C28: in the erase of a BLACK leaf the fixup runs with the leaf linked, and
\* when it returns the leaf is still childless, not the root, and the child
\* on the same side of the same parent as before; the unlink that follows
\* empties exactly the slot that held the leaf, every other link and field
\* staying, so that no other node is detached, and the leaf is then deleted.
C28_LeafStaysLinked ==
  \A n \in Elems(heap, 1) :
    FixupEntered(heap, len[1], n) =>
      /\ ~FixedUp(n).aborted
      /\ isLeaf(FixedUp(n), n) /\ ~isRoot(FixedUp(n), n)
      /\ FixedUp(n).parent[n] = Swapped(heap, len[1], n).parent[n]
      /\ direction(FixedUp(n), n) = direction(Swapped(heap, len[1], n), n)
      /\ n \in Subtree(FixedUp(n), Root(FixedUp(n), 1))
      /\ SlotCleared(FixedUp(n), removeUnlink(FixedUp(n), n), FixedUp(n).parent[n],
                     direction(FixedUp(n), n))
      /\ Subtree(removeUnlink(FixedUp(n), n), Root(removeUnlink(FixedUp(n), n), 1)) =
           Subtree(FixedUp(n), Root(FixedUp(n), 1)) \ {n}
      /\ remove(heap, Sent(1), len[1], n) = DeleteNode(removeUnlink(FixedUp(n), n), n)

----------------------------------------------------------------------------
\* Heap g has x where heap h had n: in the slot of n's parent, or in the
\* sentinel's child slot when n was the root, with the parent link to match.
TakesPlace(h, g, n, x) ==
  /\ g.parent[x] = h.parent[n]
  /\ CASE direction(h, n) = "ROOT" -> g.left[Sent(1)] = x
       [] direction(h, n) = "LEFT" -> g.left[h.parent[n]] = x
       [] direction(h, n) = "RIGHT" -> g.right[h.parent[n]] = x

\* Shape apart, g is h: the nodes in order, colours, keys and values.
SameContent(h, g) ==
  /\ InOrder(g, Root(g, 1)) = InOrder(h, Root(h, 1))
  /\ g.color = h.color /\ g.key = h.key /\ g.val = h.val
  /\ g.live = h.live /\ ~g.aborted

\* g is h after rotateLeft(n).
RotatedLeft(h, g, n) ==
  /\ TakesPlace(h, g, n, h.right[n])
  /\ g.right[n] = h.left[h.right[n]]
  /\ g.right[n] # Null => g.parent[g.right[n]] = n
  /\ g.left[h.right[n]] = n /\ g.parent[n] = h.right[n]
  /\ g.left[n] = h.left[n] /\ g.right[h.right[n]] = h.right[h.right[n]]
  /\ SameContent(h, g)
  /\ LinksConsistent(g, 1)

\* g is h after rotateRight(n).
RotatedRight(h, g, n) ==
  /\ TakesPlace(h, g, n, h.left[n])
  /\ g.left[n] = h.right[h.left[n]]
  /\ g.left[n] # Null => g.parent[g.left[n]] = n
  /\ g.right[h.left[n]] = n /\ g.parent[n] = h.left[n]
  /\ g.right[n] = h.right[n] /\ g.left[h.left[n]] = h.left[h.left[n]]
  /\ SameContent(h, g)
  /\ LinksConsistent(g, 1)

\* An insert has just been made, and the tree holds a root that can be
\* rotated to the left with a subtree to hand over, a node below the root
\* that can be rotated to the left, and a node below the root that can be
\* rotated to the right with a subtree to hand over.
C29_Witness ==
  /\ last = [op |-> "insert", kind |-> "new"]
  /\ len[1] >= 5
  /\ \E n \in Elems(heap, 1) :
       /\ isRoot(heap, n) /\ heap.right[n] # Null /\ heap.left[heap.right[n]] # Null
       /\ RotatedLeft(heap, rotateLeft(heap, Sent(1), n), n)
       /\ Root(rotateLeft(heap, Sent(1), n), 1) = heap.right[n]
  /\ \E n \in Elems(heap, 1) :
       /\ ~isRoot(heap, n) /\ heap.right[n] # Null
       /\ rotateLeft(heap, Sent(1), n) # heap
  /\ \E n \in Elems(heap, 1) :
       /\ ~isRoot(heap, n) /\ heap.left[n] # Null /\ heap.right[heap.left[n]] # Null
       /\ RotatedRight(heap, rotateRight(heap, Sent(1), n), n)

\* C29: rotateLeft(N), N with a non-empty right child S, puts S where N was
\* (under N's former parent, or in the sentinel's child slot when N was the
\* root), makes S's former left subtree the right subtree of N and N the left
\* child of S, and leaves the in-order sequence and every node's colour, key
\* and value as they were; rotateRight does the same with left and right
\* exchanged.
C29_Rotations ==
  \A n \in Elems(heap, 1) :
    /\ heap.right[n] # Null => RotatedLeft(heap, rotateLeft(heap, Sent(1), n), n)
    /\ heap.left[n] # Null => RotatedRight(heap, rotateRight(heap, Sent(1), n), n)

----------------------------------------------------------------------------
\* The nodes whose parent link differs between h and g, and the child slots
\* (the sentinel's included) whose content differs.
ParentLinksChanged(h, g) == {n \in Node : g.parent[n] # h.parent[n]}

ChildLinksChanged(h, g) ==
  {<<n, "left">> : n \in {x \in Node : g.left[x] # h.left[x]}}
    \cup {<<n, "right">> : n \in {x \in Node : g.right[x] # h.right[x]}}

\* The slot that holds node n: of its parent, or of the sentinel.
SlotOf(h, n) ==
  IF direction(h, n) = "RIGHT" THEN <<h.parent[n], "right">> ELSE <<h.parent[n], "left">>

\* The rotations container 1 admits: the heap before, the heap after, the
\* node rotated and the child that takes its place.
RotationsAt ==
  {[h |-> heap, g |-> rotateLeft(heap, Sent(1), n), n |-> n, t |-> heap.right[n],
    m |-> heap.left[heap.right[n]]] :
      n \in {x \in Elems(heap, 1) : heap.right[x] # Null}}
  \cup
  {[h |-> heap, g |-> rotateRight(heap, Sent(1), n), n |-> n, t |-> heap.left[n],
    m |-> heap.right[heap.left[n]]] :
      n \in {x \in Elems(heap, 1) : heap.left[x] # Null}}

\* An insert has just been made, and the tree admits a rotation that changes
\* three parent links and one that changes two, a rotation of the root and a
\* rotation of a RIGHT child, each changing three child slots.
C30_Witness ==
  /\ last = [op |-> "insert", kind |-> "new"]
  /\ \E r \in RotationsAt : Cardinality(ParentLinksChanged(r.h, r.g)) = 3
  /\ \E r \in RotationsAt : Cardinality(ParentLinksChanged(r.h, r.g)) = 2
  /\ \E r \in RotationsAt :
       /\ isRoot(r.h, r.n)
       /\ ChildLinksChanged(r.h, r.g) =
            {<<Sent(1), "left">>, <<r.n, "right">>, <<r.t, "left">>}
  /\ \E r \in RotationsAt :
       /\ direction(r.h, r.n) = "RIGHT"
       /\ Cardinality(ChildLinksChanged(r.h, r.g)) = 3

\* C30 as stated: a single rotateLeft or rotateRight changes at most 3 parent
\* links and at most 2 child links, the left and right slots of every node
\* and the sentinel's child slot counted.
C30_LinksChangedAsStated ==
  \A r \in RotationsAt :
    /\ Cardinality(ParentLinksChanged(r.h, r.g)) <= 3
    /\ Cardinality(ChildLinksChanged(r.h, r.g)) <= 2

\* C30, amended: a single rotateLeft or rotateRight changes at most 3 parent
\* links (of the node, of the child that takes its place and, when there is
\* one, of that child's inner subtree) and exactly 3 child links: the slot of
\* the former parent, or of the sentinel, that held the node, the node's slot
\* that held the child, and the child's slot that held the inner subtree and
\* now holds the node; every other link, and every colour, key and value, is
\* left unchanged.
C30_LinksChanged ==
  \A r \in RotationsAt :
    /\ ParentLinksChanged(r.h, r.g) = {r.n, r.t} \cup ({r.m} \ {Null})
    /\ Cardinality(ChildLinksChanged(r.h, r.g)) = 3
    /\ ChildLinksChanged(r.h, r.g) =
         {SlotOf(r.h, r.n), SlotOf(r.h, r.t),
          <<r.t, IF SlotOf(r.h, r.t)[2] = "right" THEN "left" ELSE "right">>}
    /\ r.g.color = r.h.color /\ r.g.key = r.h.key /\ r.g.val = r.h.val
    /\ ~r.g.aborted

----------------------------------------------------------------------------
\* The heap insert of the absent key k has once the new node is linked, and
\* the heap it leaves.
LinkedIn(k) == insertNode(heap, k, ValueFor(k), Sent(1), "left").h

InsertedHeap(k) == insert(heap, 1, k, ValueFor(k)).h

\* What the uncle-BLACK-or-absent case does at the halt l, taken once: one
\* rotation of the grandparent, after one of the parent in the inner case.
TerminalStep(l) ==
  IF InnerCase(l)
    THEN insertCase6(insertCase5(l.h, Sent(1), l.node), Sent(1), l.h.parent[l.node])
    ELSE insertCase6(l.h, Sent(1), l.node)

\* The rotations of a fixup that halts at l.
RotationsAt31(l) == IF l.node = Null THEN 0 ELSE IF InnerCase(l) THEN 2 ELSE 1

\* Heaps h and g have the same links.
SameLinks(h, g) == h.left = g.left /\ h.right = g.right /\ h.parent = g.parent

\* The tree has an absent key whose insert recolours on the way up and then
\* ends in the inner case with two rotations, leaving a red-black tree.
C31_Witness ==
  /\ len[1] = 7
  /\ \E k \in DeepKeys :
       /\ Holder(heap, 1, k) = Null /\ RotationsAt31(LandingOf(k)) = 2
       /\ LandingOf(k).h # LinkedIn(k)
       /\ InsertedHeap(k) = TerminalStep(LandingOf(k))
       /\ RedBlack(InsertedHeap(k), 1)

\* C31: in insert-fixup the case of a BLACK or absent uncle is terminal.
\* Whatever recolouring steps came before, the heap insert leaves is the one
\* that case produces in one go, with one rotation or two, and it is a
\* red-black tree with consistent links; a fixup that does not reach the case
\* rotates nothing (the links are those of the tree with the new node linked
\* in).  So one insert makes at most two rotations.
C31_TerminalCase ==
  \A k \in DeepKeys :
    Holder(heap, 1, k) = Null =>
      /\ RotationsAt31(LandingOf(k)) <= 2
      /\ LandingOf(k).node # Null => InsertedHeap(k) = TerminalStep(LandingOf(k))
      /\ LandingOf(k).node = Null => SameLinks(InsertedHeap(k), LinkedIn(k))
      /\ SameLinks(LandingOf(k).h, LinkedIn(k))
      /\ RedBlack(InsertedHeap(k), 1)
      /\ LinksConsistent(InsertedHeap(k), 1)
      /\ ~InsertedHeap(k).aborted

----------------------------------------------------------------------------
\* The number of parent links from n up to the sentinel.
RECURSIVE Depth(_, _)
Depth(h, n) == IF h.parent[n] = Null THEN 0 ELSE 1 + Depth(h, h.parent[n])

\* The nodes maintainAfterInsert is called on, one after the other, starting
\* with node; ok is FALSE when there are more than fuel + 1 of them.
RECURSIVE InsertCalls(_, _, _)
InsertCalls(h, node, fuel) ==
  IF isRoot(h, node) \/ isBlack(h, h.parent[node])
       \/ ~(hasUncle(h, node) /\ isRed(h, uncle(h, node)))
    THEN [nodes |-> <<node>>, ok |-> TRUE]
  ELSE IF fuel = 0 THEN [nodes |-> <<node>>, ok |-> FALSE]
  ELSE LET rest == InsertCalls(insertRecolor(h, node), grandParent(h, node), fuel - 1)
       IN  [nodes |-> <<node>> \o rest.nodes, ok |-> rest.ok]

\* Whether the delete-fixup on node, Case 1 done, goes to its parent.
GoesUp(h, node) ==
  /\ ~h.aborted /\ sibling(h, node) # Null /\ isBlack(h, sibling(h, node))
  /\ closeNephewOf(h, node) = Null \/ isBlack(h, closeNephewOf(h, node))
  /\ distantNephewOf(h, node) = Null \/ isBlack(h, distantNephewOf(h, node))
  /\ ~isRed(h, h.parent[node])

\* The heap of the delete-fixup on node once Case 1 is over.
PastCase1(h, s, node) ==
  IF isRed(h, sibling(h, node))
    THEN removeCase1(h, s, node, direction(h, node), sibling(h, node), h.parent[node])
    ELSE h

\* The nodes maintainAfterRemove is called on, starting with node.
RECURSIVE RemoveCalls(_, _, _, _)
RemoveCalls(h, s, node, fuel) ==
  IF isRoot(h, node) \/ ~hasSibling(h, node) \/ ~GoesUp(PastCase1(h, s, node), node)
    THEN [nodes |-> <<node>>, depths |-> <<Depth(h, node)>>, ok |-> TRUE]
  ELSE IF fuel = 0 THEN [nodes |-> <<node>>, depths |-> <<Depth(h, node)>>, ok |-> FALSE]
  ELSE LET rest == RemoveCalls(paint(PastCase1(h, s, node),
                                     sibling(PastCase1(h, s, node), node), RED),
                               s, PastCase1(h, s, node).parent[node], fuel - 1)
       IN  [nodes |-> <<node>> \o rest.nodes,
            depths |-> <<Depth(PastCase1(h, s, node), node)>> \o rest.depths,
            ok |-> rest.ok]

\* A climbing loop of an iterator: from ptr upwards while the node is a child
\* on side dir ("RIGHT" in operator++, "LEFT" in operator--), then one step
\* more.  steps counts the turns of the loop; ok is FALSE when the loop gets
\* to the sentinel or runs for more than fuel turns.
RECURSIVE Climb(_, _, _, _, _)
Climb(h, s, ptr, dir, fuel) ==
  IF ptr = s \/ fuel = 0 THEN [at |-> ptr, steps |-> 0, ok |-> FALSE]
  ELSE IF direction(h, ptr) = dir
    THEN LET rest == Climb(h, s, h.parent[ptr], dir, fuel - 1)
         IN  [at |-> rest.at, steps |-> rest.steps + 1, ok |-> rest.ok]
  ELSE [at |-> h.parent[ptr], steps |-> 0, ok |-> TRUE]

\* The loop of operator++(int): while (ptr->parent->left != ptr).
RECURSIVE ClimbToLeft(_, _, _, _)
ClimbToLeft(h, s, ptr, fuel) ==
  IF ptr = s \/ fuel = 0 THEN [at |-> ptr, steps |-> 0, ok |-> FALSE]
  ELSE IF h.left[h.parent[ptr]] # ptr
    THEN LET rest == ClimbToLeft(h, s, h.parent[ptr], fuel - 1)
         IN  [at |-> rest.at, steps |-> rest.steps + 1, ok |-> rest.ok]
  ELSE [at |-> h.parent[ptr], steps |-> 0, ok |-> TRUE]

\* Each entry of the sequence is the one before less d, and the last is at
\* least 1: a node of the tree, the root at the highest.
StepsDown(depths, d) ==
  /\ \A i \in 1..(Len(depths) - 1) : depths[i + 1] = depths[i] - d
  /\ depths[Len(depths)] >= 1

InsertDepths(k) ==
  [i \in 1..Len(InsertCalls(LinkedIn(k), Alloc(heap, k), MaxDeepKey).nodes) |->
     Depth(LinkedIn(k), InsertCalls(LinkedIn(k), Alloc(heap, k), MaxDeepKey).nodes[i])]

RemoveCallsOf(n) == RemoveCalls(Swapped(heap, len[1], n), Sent(1), n, MaxDeepKey)

\* The tree has an element whose delete-fixup is called a second time, on the
\* root, where it stops; an element from which the loop of operator++ climbs
\* to the sentinel; and an absent key whose insert goes through.
C32_Witness ==
  /\ \E n \in Elems(heap, 1) :
       /\ FixupEntered(heap, len[1], n)
       /\ Len(RemoveCallsOf(n).nodes) = 2
       /\ RemoveCallsOf(n).depths = <<2, 1>>
       /\ ~remove(heap, Sent(1), len[1], n).aborted
  /\ \E n \in Elems(heap, 1) :
       /\ heap.right[n] = Null
       /\ Climb(heap, Sent(1), n, "RIGHT", MaxDeepKey).steps = 1
       /\ Climb(heap, Sent(1), n, "RIGHT", MaxDeepKey).at = Sent(1)
  /\ \E k \in DeepKeys :
       /\ Holder(heap, 1, k) = Null
       /\ InsertCalls(LinkedIn(k), Alloc(heap, k), MaxDeepKey).ok
       /\ ~InsertedHeap(k).aborted

\* C32: insert and erase terminate.  The calls of maintainAfterInsert go from
\* a node to its grandparent, two levels nearer the root each time, and those
\* of maintainAfterRemove from a node to its parent, one level nearer; each
\* chain ends on a node of the tree, the root at the latest, within as many
\* calls as the tree has levels, and the insert or erase then returns without
\* abort.  The climbing loops of operator++, operator++(int) and operator--
\* end within as many turns as the start node has ancestors, on an element
\* or, at the latest, on the sentinel, which the loop itself never examines.
C32_Terminates ==
  /\ \A k \in DeepKeys :
       Holder(heap, 1, k) = Null =>
         /\ InsertCalls(LinkedIn(k), Alloc(heap, k), MaxDeepKey).ok
         /\ StepsDown(InsertDepths(k), 2)
         /\ 2 * Len(InsertDepths(k)) <= InsertDepths(k)[1] + 1
         /\ ~InsertedHeap(k).aborted
  /\ \A n \in Elems(heap, 1) :
       /\ FixupEntered(heap, len[1], n) =>
            /\ RemoveCallsOf(n).ok
            /\ StepsDown(RemoveCallsOf(n).depths, 1)
            /\ Len(RemoveCallsOf(n).nodes) <= Depth(Swapped(heap, len[1], n), n)
       /\ ~remove(heap, Sent(1), len[1], n).aborted
       /\ heap.right[n] = Null =>
            /\ Climb(heap, Sent(1), n, "RIGHT", MaxDeepKey).ok
            /\ Climb(heap, Sent(1), n, "RIGHT", MaxDeepKey).steps < Depth(heap, n)
            /\ Climb(heap, Sent(1), n, "RIGHT", MaxDeepKey).at = increment(heap, 1, n).ptr
            /\ ClimbToLeft(heap, Sent(1), n, MaxDeepKey).ok
            /\ ClimbToLeft(heap, Sent(1), n, MaxDeepKey).steps < Depth(heap, n)
            /\ ClimbToLeft(heap, Sent(1), n, MaxDeepKey).at = incrementPost(heap, 1, n).ptr
            /\ increment(heap, 1, n).ptr \in Elems(heap, 1) \cup {Sent(1)}
       /\ (heap.left[n] = Null /\ n # begin(heap, 1)) =>
            /\ Climb(heap, Sent(1), n, "LEFT", MaxDeepKey).ok
            /\ Climb(heap, Sent(1), n, "LEFT", MaxDeepKey).steps < Depth(heap, n) - 1
            /\ Climb(heap, Sent(1), n, "LEFT", MaxDeepKey).at = decrement(heap, 1, n).ptr
            /\ decrement(heap, 1, n).ptr \in Elems(heap, 1)

----------------------------------------------------------------------------
\* The nodes the containers that exist hold, and the cells that hold an
\* object.
Owned(h) == UNION {Subtree(h, Root(h, m)) : m \in {x \in Maps : Constructed(h, x)}}

Allocated(h) == h.live \ {Sent(m) : m \in Maps}

\* C33: every node is created once and released once.  In every state, the
\* nodes reachable from the sentinel of a container that exists are
\* allocated, each belongs to one container only, and no other node is
\* allocated: what erase, clear, assignment and destruction took out has
\* been released, and a destroyed container has left nothing behind; and no
\* call has released a node a second time or used a released one.
C33_NodesReleasedOnce ==
  /\ \A m \in Maps : Constructed(heap, m) => Subtree(heap, Root(heap, m)) \subseteq heap.live
  /\ \A m, other \in Maps :
       (m # other /\ Constructed(heap, m) /\ Constructed(heap, other)) =>
         Subtree(heap, Root(heap, m)) \cap Subtree(heap, Root(heap, other)) = {}
  /\ Allocated(heap) = Owned(heap)
  /\ ~undefined

----------------------------------------------------------------------------
\* The keys container 1 holds before and after the step, with a different
\* value after it.
Revalued ==
  {k \in 1..MaxStoreKey :
     /\ Holder(heap, 1, k) # Null /\ Holder(heap', 1, k) # Null
     /\ heap'.val[Holder(heap', 1, k)] # heap.val[Holder(heap, 1, k)]}

\* The step has changed nothing but the value of node n, now v.
OnlyValueSet(n, v) ==
  /\ heap' = [heap EXCEPT !.val[n] = v]
  /\ len' = len

\* A store through operator*() has just given the element with key 1 a value
\* that insert and operator[] do not give it here.
C34_Witness ==
  /\ last = [op |-> "iterator_store", kind |-> "stored"]
  /\ Holder(heap, 1, 1) # Null
  /\ heap.val[Holder(heap, 1, 1)] # ValueFor(1)
  /\ len[1] >= 2

\* C34 as stated: the value of an element that exists changes only in a
\* step that stores through the mutable operator[].
C34_OnlySubscriptStores ==
  [][Revalued # {} => last'.op = "store"]_vars

\* C34, amended: the value of an element that exists changes only in a step
\* that stores through a reference the container hands out: that of the
\* mutable operator[], that of the non-const at(), or that of dereferencing an
\* iterator.  Such a store changes the value of that one element and nothing
\* else; at() on an absent key and dereferencing end() throw and change
\* nothing; insert() never changes the value of an element that exists.
C34_StoresThroughReferences ==
  [][/\ Revalued # {} => last'.op \in {"store", "at_store", "iterator_store"}
     /\ last'.op = "insert" => Revalued = {}
     /\ last' = [op |-> "at_store", kind |-> "stored"] =>
          \E k \in 1..MaxStoreKey : \E v \in 0..MaxVal :
            Holder(heap, 1, k) # Null /\ OnlyValueSet(Holder(heap, 1, k), v)
     /\ last' = [op |-> "iterator_store", kind |-> "stored"] =>
          \E n \in Elems(heap, 1) : \E v \in 0..MaxVal : OnlyValueSet(n, v)
     /\ last'.kind = "throw" => heap' = heap /\ len' = len]_vars

----------------------------------------------------------------------------
\* The nodes of container m with exactly one child, and that child.
OneChild(h, m) ==
  {n \in Subtree(h, Root(h, m)) : (h.left[n] = Null) # (h.right[n] = Null)}

OnlyChild(h, n) == IF h.left[n] # Null THEN h.left[n] ELSE h.right[n]

\* The heap erase of the one-child node n leaves when the child is put in
\* its place and painted BLACK, the fixup not called.
SplicedOut(h, n) ==
  DeleteNode(
    paint(setParent(setSlot(h, Sent(1), h.parent[n], direction(h, n), OnlyChild(h, n)),
                    OnlyChild(h, n), h.parent[n]),
          OnlyChild(h, n), BLACK),
    n)

\* An element with one child has just been erased, and the tree has a root
\* with one child and a node below the root with one child, on the left for
\* one of them and on the right for the other.
C35_Witness ==
  /\ last = [op |-> "erase", kind |-> "one"]
  /\ \E n \in OneChild(heap, 1) : isRoot(heap, n) \/ heap.left[n] # Null
  /\ \E n \in OneChild(heap, 1) : ~isRoot(heap, n) /\ heap.right[n] # Null
  /\ \A n \in OneChild(heap, 1) : remove(heap, Sent(1), len[1], n) = SplicedOut(heap, n)

\* C35: in every reachable state a node with exactly one child is BLACK and
\* its child is a RED leaf.  So the erase of a one-child node paints the
\* replacement, which is RED, BLACK, and never runs the delete-fixup on a
\* BLACK replacement: the heap it leaves is the one with the child put in the
\* node's place and painted, and it is a red-black tree.
C35_OneChildShape ==
  \A m \in Maps :
    Constructed(heap, m) =>
      \A n \in OneChild(heap, m) :
        /\ isBlack(heap, n)
        /\ isRed(heap, OnlyChild(heap, n))
        /\ isLeaf(heap, OnlyChild(heap, n))
        /\ m = 1 =>
             /\ remove(heap, Sent(1), len[1], n) = SplicedOut(heap, n)
             /\ isBlack(remove(heap, Sent(1), len[1], n), OnlyChild(heap, n))
             /\ RedBlack(remove(heap, Sent(1), len[1], n), 1)

\* ++ and -- step along the sequence seq of nodes of the heap h and its
\* end(), one position at a time in both directions.
SteppedBothWays(h, seq) ==
  \A i \in 1..Len(seq) :
    LET next == IF i = Len(seq) THEN end(1) ELSE seq[i + 1]
    IN  /\ increment(h, 1, seq[i]) = [ptr |-> next, exc |-> "none"]
        /\ decrement(h, 1, next) = [ptr |-> seq[i], exc |-> "none"]

\* Every node of the heap h that is an element of the heap g too holds in g
\* the key and the value it holds in h.
SamePairs(h, g) ==
  \A e \in Elems(h, 1) \cap Elems(g, 1) :
    g.key[e] = h.key[e] /\ g.val[e] = h.val[e]

\* erase of the element n: the other elements stay in their nodes, in the
\* order they had, and are stepped over in both directions.
ErasedInPlace(n) ==
  LET g == remove(heap, Sent(1), len[1], n)
  IN  /\ ~g.aborted
      /\ Elems(g, 1) = Elems(heap, 1) \ {n}
      /\ SamePairs(heap, g)
      /\ Traversal(g, 1).ok
      /\ Traversal(g, 1).nodes = Without(Traversal(heap, 1).nodes, n)
      /\ SteppedBothWays(g, Traversal(g, 1).nodes)

\* insert of the key k: the elements stay in their nodes, in the order they
\* had, the new node between two of them, and are stepped over in both
\* directions.
InsertedInPlace(k) ==
  LET r == insert(heap, 1, k, ValueFor(k))
  IN  /\ ~r.h.aborted
      /\ Elems(r.h, 1) = Elems(heap, 1) \cup {r.node}
      /\ SamePairs(heap, r.h)
      /\ Traversal(r.h, 1).ok
      /\ r.ok => Without(Traversal(r.h, 1).nodes, r.node) = Traversal(heap, 1).nodes
      /\ ~r.ok => r.h = heap
      /\ SteppedBothWays(r.h, Traversal(r.h, 1).nodes)

ValidStarts == Elems(heap, 1) \cup {end(1)}

\* The number of parents the loop of ++ goes up from p through right
\* children, and the loop of -- through left children.
RECURSIVE RightClimb(_)
RightClimb(p) == IF direction(heap, p) = "RIGHT" THEN 1 + RightClimb(heap.parent[p]) ELSE 0

RECURSIVE LeftClimb(_)
LeftClimb(p) == IF direction(heap, p) = "LEFT" THEN 1 + LeftClimb(heap.parent[p]) ELSE 0

\* The four forms of ++ from p move to one position and throw alike, and the
\* postfix forms return p; and so the four forms of --.
FormsAgree(p) ==
  /\ incrementPost(heap, 1, p).ptr = increment(heap, 1, p).ptr
  /\ incrementPost(heap, 1, p).exc = increment(heap, 1, p).exc
  /\ constIncrement(heap, 1, p) = increment(heap, 1, p)
  /\ constIncrementPost(heap, 1, p) = incrementPost(heap, 1, p)
  /\ increment(heap, 1, p).exc = "none" =>
       /\ incrementPost(heap, 1, p).ret = p
       /\ constIncrementPost(heap, 1, p).ret = p
  /\ decrementPost(heap, 1, p).ptr = decrement(heap, 1, p).ptr
  /\ decrementPost(heap, 1, p).exc = decrement(heap, 1, p).exc
  /\ constDecrement(heap, 1, p) = decrement(heap, 1, p)
  /\ constDecrementPost(heap, 1, p) = decrementPost(heap, 1, p)
  /\ decrement(heap, 1, p).exc = "none" =>
       /\ decrementPost(heap, 1, p).ret = p
       /\ constDecrementPost(heap, 1, p).ret = p

\* A tree where ++ climbs two parents from a node without a right child to
\* an element, and from another to end(), where -- climbs two parents from a
\* node without a left child, and where ++ and -- descend into a subtree.
C37_Witness ==
  /\ \E p \in Elems(heap, 1) :
       /\ heap.right[p] = Null /\ RightClimb(p) >= 2
       /\ incrementPost(heap, 1, p).ptr \in Elems(heap, 1)
  /\ \E p \in Elems(heap, 1) :
       /\ heap.right[p] = Null /\ RightClimb(p) >= 2
       /\ incrementPost(heap, 1, p).ptr = end(1)
  /\ \E p \in Elems(heap, 1) :
       /\ heap.left[p] = Null /\ LeftClimb(p) >= 2
       /\ decrementPost(heap, 1, p).ptr \in Elems(heap, 1)
  /\ \E p \in Elems(heap, 1) :
       /\ heap.right[p] # Null /\ heap.left[heap.right[p]] # Null
       /\ incrementPost(heap, 1, p).ret = p
  /\ \E p \in Elems(heap, 1) :
       /\ heap.left[p] # Null /\ heap.right[heap.left[p]] # Null
       /\ decrementPost(heap, 1, p).ret = p
  /\ decrementPost(heap, 1, end(1)).ptr \in Elems(heap, 1)

\* C37: from every valid position of the map, an element or end(), the
\* postfix and the prefix ++, of iterator and of const_iterator, move to the
\* same position or throw alike, although iterator's postfix ++ climbs with
\* a loop written differently; so do the four forms of --; and the postfix
\* forms return an iterator at the position held before the step.
C37_IteratorFormsAgree == \A p \in ValidStarts : FormsAgree(p)

\* C38: it-- on a position of the linked_hashmap other than begin(), an
\* element or end(), moves the iterator one element back and returns an
\* iterator at the position held before the step, for iterator exactly as
\* for const_iterator.
C38_PostfixDecrementReturnsOldPosition ==
  \A p \in (LinkedElems(lhm, 1) \cup {tail(1)}) \ {lhm.after[head(1)]} :
    /\ linkedDecrementPost(lhm, 1, p).exc = "none"
    /\ linkedDecrementPost(lhm, 1, p).ptr = lhm.before[p]
    /\ linkedDecrementPost(lhm, 1, p).ret = p
    /\ linkedDecrementPost(lhm, 1, p) = linkedConstDecrementPost(lhm, 1, p)

\* The nodes of a bucket chain from p on, in chain order.
RECURSIVE chainFrom(_, _, _)
chainFrom(l, p, fuel) ==
  IF p = Null \/ fuel = 0 THEN <<>> ELSE <<p>> \o chainFrom(l, l.next[p], fuel - 1)

Chain(l, m, i) == chainFrom(l, l.cont[m][i], 2 * MaxLinkedKey + 1)

Range(s) == {s[i] : i \in 1..Len(s)}

\* The list between the sentinels of m is doubly linked and ends at tail.
DoublyLinked(l, m) ==
  LET seq == <<head(m)>> \o LinkedTraversal(l, m) \o <<tail(m)>>
  IN  /\ l.before[head(m)] = Null /\ l.after[tail(m)] = Null
      /\ Cardinality(Range(seq)) = Len(seq)
      /\ Range(seq) \subseteq l.live
      /\ \A i \in 1..(Len(seq) - 1) :
           l.after[seq[i]] = seq[i + 1] /\ l.before[seq[i + 1]] = seq[i]

\* The list and the bucket chains of m hold the same nodes, each node in
\* the chain of its key only, once, where find gets to it.
IndexesAgree(l, m) ==
  /\ DoublyLinked(l, m)
  /\ Len(LinkedTraversal(l, m)) = l.len[m]
  /\ DOMAIN l.cont[m] = 0..(l.capacity[m] - 1)
  /\ l.capacity[m] = mod[l.capp[m] + 1]
  /\ \A n \in LinkedElems(l, m) :
       \A i \in DOMAIN l.cont[m] :
         Cardinality({j \in 1..Len(Chain(l, m, i)) : Chain(l, m, i)[j] = n})
           = IF i = bucket(l, m, l.key[n]) THEN 1 ELSE 0
  /\ \A i \in DOMAIN l.cont[m] : Range(Chain(l, m, i)) \subseteq LinkedElems(l, m)
  /\ \A n \in LinkedElems(l, m) :
       bucketFind(l, l.key[n], l.cont[m][bucket(l, m, l.key[n])]) = n

\* A container was just assigned three elements that another one, still
\* holding them in nodes of its own, got while its table grew twice; the
\* first is then cleared, and made again as a copy of the second.
C39_Witness ==
  /\ last = [op |-> "linked_assign", kind |-> "nodes"]
  /\ \A m \in Maps : lhm.len[m] = 3 /\ lhm.capp[m] = 2
  /\ LinkedKeysOf(lhm, LinkedTraversal(lhm, 1)) = LinkedKeysOf(lhm, LinkedTraversal(lhm, 2))
  /\ LinkedElems(lhm, 1) \cap LinkedElems(lhm, 2) = {}
  /\ \A m \in Maps : IndexesAgree(lhm, m)
  /\ IndexesAgree(linkedClear(lhm, 1), 1)
  /\ IndexesAgree(linkedCopy(linkedClear(lhm, 1), 1, 2), 1)

\* C39: after any sequence of insert, erase, clear, copy construction,
\* assignment and growth of the table, in both containers the list between
\* the sentinels is doubly linked and has size() elements, every element is
\* in exactly one bucket chain, the one at Hash(key) % capacity, once, no
\* chain holds a node that is not in the list, and find reaches every
\* stored key.
C39_IndexesAgree == \A m \in Maps : IndexesAgree(lhm, m)
====
